---- MODULE Spec2Model ----
(***************************************************************************)
(* A model of treemd's document-structure pipeline: the heading tree       *)
(* builder, the section boundary extractor and the document/section        *)
(* assembler (src/parser/builder.rs), the link extractor                   *)
(* (src/parser/links.rs), the heading-level test (src/parser/utils.rs)     *)
(* and the content parser's event loop (src/parser/content.rs).            *)
(*                                                                         *)
(* Text is modelled as a sequence of one-character strings; every          *)
(* character used here is one byte long, so an index into the sequence     *)
(* minus one is the byte offset that Rust's str functions report.          *)
(***************************************************************************)
EXTENDS Integers, Sequences, FiniteSets, TLC

VARIABLES
    doc,        \* Document { content, headings }
    pc,         \* position inside the operation of the running specification
    idx,        \* build_tree: number of headings already folded into the forest
    stack,      \* build_tree: the stack of open nodes, bottom first
    tree,       \* build_tree: the forest of HeadingNode built so far
    output,     \* build_json_output: the DocumentOutput, or None before it is built
    heading,    \* extract_section_content: the heading looked up
    scan,       \* find_next_heading: the line its loop returned at and the position
    result,     \* the value returned by the function under check, or None
    arg,        \* the argument of the pure function under check, or None
    tokens,     \* extract_links: the event stream of the markdown tokenizer
    links,      \* extract_links: the Vec<Link> built so far
    state,      \* parse_content: the ParserState, or None outside the parser
    blocks,     \* parse_content: the top-level Vec<Block> built so far
    events,     \* parse_content: the tokenizer events processed so far
    tags        \* parse_content: the tokenizer's stack of open tags

vars == <<doc, pc, idx, stack, tree, output, heading, scan, result,
          arg, tokens, links, state, blocks, events, tags>>

\* the variables of extract_links and of the pure functions
linkVars == <<arg, tokens, links>>
\* the variables of the content parser
contentVars == <<state, blocks, events, tags>>

None == [none |-> TRUE]

----------------------------------------------------------------------------
(* Bounds of the model. *)

\* longest heading sequence folded by build_tree in SpecTree
MaxHeadings == 4
\* longest heading sequence of a Document assembled in Spec
MaxDocHeadings == 3
\* deepest heading level of a Document assembled in Spec
MaxDocLevel == 3
\* most lines of a Document source assembled in Spec
MaxDocLines == 3
\* most lines of a source scanned in SpecSection
MaxLines == 5

\* Heading levels are 1..=6 by construction of the markdown grammar.
MaxLevel == 6

----------------------------------------------------------------------------
(* Characters and Rust's str functions, computed as the standard library   *)
(* computes them.                                                          *)

NL == "\n"
CR == "\r"
HASH == "#"
SP == " "
\* the backtick, which a TLA+ string cannot hold, is written as an apostrophe
TICK == "'"

\* char::is_whitespace, on the characters of the model
is_whitespace(ch) == ch \in {SP, NL, CR, "\t"}

\* char::is_alphanumeric, on the characters of the model
is_alphanumeric(ch) == ch \in {"a", "b", "x", "y", "z", "A", "B", "1"}

Min(S) == CHOOSE m \in S : \A n \in S : m <= n
Max(S) == CHOOSE m \in S : \A n \in S : m >= n

\* "#".repeat(n)
RECURSIVE repeat(_, _)
repeat(ch, n) == IF n = 0 THEN <<>> ELSE <<ch>> \o repeat(ch, n - 1)

\* s[from..] with a 0-based byte index
SliceFrom(s, from) == SubSeq(s, from + 1, Len(s))
\* s[..to] with a 0-based byte index
SliceTo(s, to) == SubSeq(s, 1, to)

\* str::starts_with
starts_with(s, pat) == Len(pat) <= Len(s) /\ SubSeq(s, 1, Len(pat)) = pat

\* str::find(&str): the 0-based index of the first occurrence, -1 for None.
\* The scan goes left to right and stops at the first match.
RECURSIVE find_from(_, _, _)
find_from(s, pat, i) ==
    IF i + Len(pat) > Len(s) THEN -1
    ELSE IF SubSeq(s, i + 1, i + Len(pat)) = pat THEN i
    ELSE find_from(s, pat, i + 1)

find(s, pat) == find_from(s, pat, 0)

\* str::trim_start / trim_end / trim
trim_start(s) ==
    LET black == {i \in 1..Len(s) : ~is_whitespace(s[i])}
    IN IF black = {} THEN <<>> ELSE SubSeq(s, Min(black), Len(s))

trim_end(s) ==
    LET black == {i \in 1..Len(s) : ~is_whitespace(s[i])}
    IN IF black = {} THEN <<>> ELSE SubSeq(s, 1, Max(black))

trim(s) == trim_end(trim_start(s))

\* str::lines: split at "\n"; a "\r" right before the "\n" belongs to the line
\* ending; no empty last line after a final "\n".
RECURSIVE lines(_)
lines(s) ==
    IF s = <<>> THEN <<>>
    ELSE LET n == find(s, <<NL>>) IN
         IF n = -1 THEN <<s>>
         ELSE LET raw == SliceTo(s, n)
                  line == IF raw # <<>> /\ raw[Len(raw)] = CR
                          THEN SubSeq(raw, 1, Len(raw) - 1) ELSE raw
              IN <<line>> \o lines(SliceFrom(s, n + 1))

\* str::split_whitespace().count()
RECURSIVE count_tokens(_, _)
count_tokens(s, inToken) ==
    IF s = <<>> THEN 0
    ELSE IF is_whitespace(Head(s)) THEN count_tokens(Tail(s), FALSE)
    ELSE (IF inToken THEN 0 ELSE 1) + count_tokens(Tail(s), TRUE)

----------------------------------------------------------------------------
(* Heading, HeadingNode and build_tree (parser/document.rs), after the      *)
(* algorithm of the design description: one left-to-right pass with a      *)
(* stack of open nodes; for each heading, pop the stack while its top has  *)
(* level >= the heading's level, attach the new node as a child of the new *)
(* stack top (as a root if the stack is empty), push the new node.         *)

Heading(level, text) == [level |-> level, text |-> text]

HeadingNode(h) == [heading |-> h, children |-> <<>>]

\* the children of the node a path of child indices leads to; the empty path
\* names the root list itself
RECURSIVE ChildrenAt(_, _)
ChildrenAt(forest, path) ==
    IF path = <<>> THEN forest
    ELSE ChildrenAt(forest[Head(path)].children, Tail(path))

\* a variant that puts the node in front of its siblings
RECURSIVE AttachAtFront(_, _, _)
AttachAtFront(forest, path, node) ==
    IF path = <<>> THEN <<node>> \o forest
    ELSE [forest EXCEPT ![Head(path)].children =
              AttachAtFront(forest[Head(path)].children, Tail(path), node)]

\* push a node onto the children of the node at the path (onto the roots for
\* the empty path)
RECURSIVE AttachAt(_, _, _)
AttachAt(forest, path, node) ==
    IF path = <<>> THEN Append(forest, node)
    ELSE [forest EXCEPT ![Head(path)].children =
              AttachAt(forest[Head(path)].children, Tail(path), node)]

\* a variant that pops only strictly deeper nodes, so that equal levels nest
RECURSIVE PopWhileDeeper(_, _)
PopWhileDeeper(stk, level) ==
    IF stk # <<>> /\ stk[Len(stk)].level > level
    THEN PopWhileDeeper(SubSeq(stk, 1, Len(stk) - 1), level)
    ELSE stk

\* pop the stack while its top has level >= the current heading's level
RECURSIVE PopWhile(_, _)
PopWhile(stk, level) ==
    IF stk # <<>> /\ stk[Len(stk)].level >= level
    THEN PopWhile(SubSeq(stk, 1, Len(stk) - 1), level)
    ELSE stk

\* a variant that attaches every node to the roots
AttachPathFlat(stk) == <<>>

\* where the new node is attached: under the stack top, or the roots
AttachPath(stk) == IF stk = <<>> THEN <<>> ELSE stk[Len(stk)].path

\* one iteration of build_tree's loop, for heading h
build_tree_step(st, h) ==
    LET popped == PopWhile(st.stack, h.level)
        parent == AttachPath(popped)
        forest == AttachAt(st.tree, parent, HeadingNode(h))
        path   == parent \o <<Len(ChildrenAt(st.tree, parent)) + 1>>
    IN [stack |-> Append(popped, [level |-> h.level, path |-> path]),
        tree  |-> forest]

RECURSIVE build_tree_fold(_, _)
build_tree_fold(st, hs) ==
    IF hs = <<>> THEN st
    ELSE build_tree_fold(build_tree_step(st, Head(hs)), Tail(hs))

\* Document::build_tree
build_tree(headings) ==
    build_tree_fold([stack |-> <<>>, tree |-> <<>>], headings).tree

----------------------------------------------------------------------------
(* Measures of a forest, used to state properties.                         *)

\* pre-order flattening: parent before children, children left to right
RECURSIVE Flatten(_)
Flatten(forest) ==
    IF forest = <<>> THEN <<>>
    ELSE <<Head(forest).heading>> \o Flatten(Head(forest).children)
             \o Flatten(Tail(forest))

\* every child is strictly deeper than its parent
RECURSIVE ChildrenDeeper(_)
ChildrenDeeper(forest) ==
    \A i \in 1..Len(forest) :
        /\ \A j \in 1..Len(forest[i].children) :
               forest[i].children[j].heading.level > forest[i].heading.level
        /\ ChildrenDeeper(forest[i].children)

\* number of nodes of a forest
RECURSIVE Size(_)
Size(forest) ==
    IF forest = <<>> THEN 0
    ELSE 1 + Size(Head(forest).children) + Size(Tail(forest))

\* the parent of every node, by pre-order position (0 for a root): the
\* sequence ParentOf(forest, 0, 0) has one entry per node, in pre-order
RECURSIVE ParentOf(_, _, _)
ParentOf(forest, parent, before) ==
    IF forest = <<>> THEN <<>>
    ELSE LET me == before + 1
             sub == ParentOf(Head(forest).children, me, me)
         IN <<parent>> \o sub
              \o ParentOf(Tail(forest), parent, me + Len(sub))

\* the declarative rule: the nearest preceding heading of strictly smaller
\* level, 0 when there is none
NearestShallower(hs, i) ==
    LET S == {j \in 1..(i - 1) : hs[j].level < hs[i].level}
    IN IF S = {} THEN 0 ELSE Max(S)

\* the ancestors of the node at pre-order position i, given the parent sequence
RECURSIVE Ancestors(_, _)
Ancestors(par, i) ==
    IF par[i] = 0 THEN {} ELSE {par[i]} \cup Ancestors(par, par[i])

----------------------------------------------------------------------------
(* SpecTree: build_tree folds a flat heading sequence, one heading a step. *)

RECURSIVE SeqsUpTo(_, _)
SeqsUpTo(S, n) ==
    IF n = 0 THEN {<<>>}
    ELSE LET shorter == SeqsUpTo(S, n - 1)
         IN shorter \cup {Append(s, x) : s \in {t \in shorter : Len(t) = n - 1}, x \in S}

TitleA == <<"a">>
TitleB == <<"b">>

\* the titles of a heading sequence: all alike, or alternating
TitlePatterns == {"same", "alternating"}
TitleOf(pattern, i) ==
    IF pattern = "alternating" /\ i % 2 = 0 THEN TitleB ELSE TitleA

\* the flat heading sequences build_tree is run on
TreeHeadingSeqs ==
    {[i \in 1..Len(ls) |-> Heading(ls[i], TitleOf(p, i))] :
        ls \in SeqsUpTo(1..MaxLevel, MaxHeadings), p \in TitlePatterns}

\* the link extractor and the pure functions are not running
LinkIdle ==
    /\ arg = None
    /\ tokens = <<>>
    /\ links = <<>>

\* the content parser is not running
ContentIdle ==
    /\ state = None
    /\ blocks = <<>>
    /\ events = <<>>
    /\ tags = <<>>

OtherIdle ==
    /\ output = None
    /\ heading = None
    /\ scan = None
    /\ result = None
    /\ LinkIdle
    /\ ContentIdle

TreeInit ==
    /\ doc \in {[content |-> <<>>, headings |-> hs] : hs \in TreeHeadingSeqs}
    /\ pc = "build_tree"
    /\ idx = 0
    /\ stack = <<>>
    /\ tree = <<>>
    /\ OtherIdle

\* for heading in &self.headings { ... }
BuildTreeStep ==
    /\ pc = "build_tree"
    /\ idx < Len(doc.headings)
    /\ LET st == build_tree_step([stack |-> stack, tree |-> tree],
                                 doc.headings[idx + 1])
       IN /\ stack' = st.stack
          /\ tree' = st.tree
    /\ idx' = idx + 1
    /\ UNCHANGED <<doc, pc, output, heading, scan, result>>
    /\ UNCHANGED <<linkVars, contentVars>>

\* the loop is over: the forest is returned
BuildTreeReturn ==
    /\ pc = "build_tree"
    /\ idx = Len(doc.headings)
    /\ pc' = "built"
    /\ UNCHANGED <<doc, idx, stack, tree, output, heading, scan, result>>
    /\ UNCHANGED <<linkVars, contentVars>>

TreeNext == BuildTreeStep \/ BuildTreeReturn

SpecTree == TreeInit /\ [][TreeNext]_vars

----------------------------------------------------------------------------
(* Section boundary extraction (parser/builder.rs).                        *)

\* a line whose trim_start() starts with the triple-backtick fence
is_fence_line(line) == starts_with(trim_start(line), <<TICK, TICK, TICK>>)

\* the loop of builder.rs's private get_heading_level over the characters of
\* the trimmed line; 0 stands for None
RECURSIVE heading_level_loop(_, _)
heading_level_loop(chars, level) ==
    IF chars = <<>> THEN 0
    ELSE IF Head(chars) = HASH THEN heading_level_loop(Tail(chars), level + 1)
    ELSE IF is_whitespace(Head(chars)) THEN (IF level > 0 THEN level ELSE 0)
    ELSE 0

get_heading_level(line) == heading_level_loop(trim_start(line), 0)

\* a variant of the loop below that never looks at the code fences
RECURSIVE find_next_heading_nofence(_, _, _, _, _)
find_next_heading_nofence(ls, i, in_code_block, pos, current_level) ==
    IF i > Len(ls) THEN [boundary |-> 0, pos |-> -1]
    ELSE LET level == get_heading_level(ls[i])
         IN IF level # 0 /\ level <= current_level
            THEN [boundary |-> i, pos |-> pos]
            ELSE find_next_heading_nofence(ls, i + 1, FALSE,
                                           pos + Len(ls[i]) + 1, current_level)

\* the loop of find_next_heading from line i on: the fence toggle comes before
\* the heading test of the same line. It yields the line it returned at
\* (0 when the loop ran out) and the position it returned there.
RECURSIVE find_next_heading_loop(_, _, _, _, _)
find_next_heading_loop(ls, i, in_code_block, pos, current_level) ==
    IF i > Len(ls) THEN [boundary |-> 0, pos |-> -1]
    ELSE LET in_code == IF is_fence_line(ls[i])
                        THEN ~in_code_block ELSE in_code_block
             level == get_heading_level(ls[i])
         IN IF ~in_code /\ level # 0 /\ level <= current_level
            THEN [boundary |-> i, pos |-> pos]
            ELSE find_next_heading_loop(ls, i + 1, in_code,
                                        pos + Len(ls[i]) + 1, current_level)

\* find_next_heading, with the line of the loop it returned at
find_next_heading_at(content, current_level) ==
    LET r == find_next_heading_loop(lines(content), 1, FALSE, 0, current_level)
    IN IF r.boundary = 0 THEN [boundary |-> 0, pos |-> Len(content)] ELSE r

find_next_heading(content, current_level) ==
    find_next_heading_at(content, current_level).pos

\* format!("{} {}", "#".repeat(heading.level), heading.text)
marker(h) == repeat(HASH, h.level) \o <<SP>> \o h.text

\* the section text handed to find_next_heading, when the marker is found at
\* offset
section_start(full_content, offset) ==
    LET after_heading == SliceFrom(full_content, offset)
        nl == find(after_heading, <<NL>>)
    IN IF nl = -1 THEN 0 ELSE nl + 1

extract_section_content(h, full_content) ==
    LET offset == find(full_content, marker(h)) IN
    IF offset # -1
    THEN LET line == Len(lines(SliceTo(full_content, offset))) + 1
             content_start == section_start(full_content, offset)
             section_content == SliceFrom(full_content, offset + content_start)
             end == find_next_heading(section_content, h.level)
         IN [raw |-> trim(SliceTo(section_content, end)),
             offset |-> offset + content_start,
             line |-> line + 1]
    ELSE [raw |-> <<>>, offset |-> 0, line |-> 0]

----------------------------------------------------------------------------
(* SpecSection: extract_section_content on one heading and one source.     *)

RECURSIVE Join(_, _)
Join(ls, sep) ==
    IF ls = <<>> THEN <<>>
    ELSE IF Len(ls) = 1 THEN ls[1]
    ELSE ls[1] \o sep \o Join(Tail(ls), sep)

\* the kinds of source line: headings of level 1 and 2, a fence, plain text,
\* a '#' run that is no heading, and the empty line (as last line it gives
\* the source a final line ending)
SourceLines ==
    { <<HASH, SP, "a">>, <<HASH, HASH, SP, "a">>, <<TICK, TICK, TICK>>,
      <<"x">>, <<HASH, "x">>, <<>> }

LineEndings == { <<NL>>, <<CR, NL>> }

Sources(maxLines) ==
    {Join(ls, e) : ls \in SeqsUpTo(SourceLines, maxLines), e \in LineEndings}

SectionHeadings ==
    { Heading(1, TitleA), Heading(2, TitleA), Heading(2, TitleB) }

SectionInit ==
    /\ doc \in {[content |-> c, headings |-> <<>>] : c \in Sources(MaxLines)}
    /\ heading \in SectionHeadings
    /\ pc = "extract"
    /\ scan = None
    /\ result = None
    /\ idx = 0
    /\ stack = <<>>
    /\ tree = <<>>
    /\ output = None
    /\ LinkIdle
    /\ ContentIdle

\* the marker is found: the section is cut out of the full source
ExtractFound ==
    /\ pc = "extract"
    /\ find(doc.content, marker(heading)) # -1
    /\ LET offset == find(doc.content, marker(heading))
           start == offset + section_start(doc.content, offset)
       IN scan' = find_next_heading_at(SliceFrom(doc.content, start),
                                       heading.level)
    /\ result' = extract_section_content(heading, doc.content)
    /\ pc' = "done"
    /\ UNCHANGED <<doc, idx, stack, tree, output, heading>>
    /\ UNCHANGED <<linkVars, contentVars>>

\* the marker is not found: the empty section
ExtractNotFound ==
    /\ pc = "extract"
    /\ find(doc.content, marker(heading)) = -1
    /\ result' = extract_section_content(heading, doc.content)
    /\ pc' = "done"
    /\ UNCHANGED <<doc, idx, stack, tree, output, heading, scan>>
    /\ UNCHANGED <<linkVars, contentVars>>

SectionNext == ExtractFound \/ ExtractNotFound

SpecSection == SectionInit /\ [][SectionNext]_vars

----------------------------------------------------------------------------
(* The document/section assembler (parser/builder.rs) and what it calls.   *)

\* char::to_lowercase, on the characters of the model
to_lowercase(ch) == IF ch = "A" THEN "a" ELSE IF ch = "B" THEN "b" ELSE ch

\* slugify's map and filter: alphanumerics stay, whitespace and '-' become
\* '-', everything else is dropped
RECURSIVE slug_chars(_)
slug_chars(text) ==
    IF text = <<>> THEN <<>>
    ELSE LET c == to_lowercase(Head(text))
             rest == slug_chars(Tail(text))
         IN IF is_alphanumeric(c) THEN <<c>> \o rest
            ELSE IF is_whitespace(c) \/ c = "-" THEN <<"-">> \o rest
            ELSE rest

\* str::split('-') followed by the filter of the empty pieces
RECURSIVE split_nonempty(_, _)
split_nonempty(s, piece) ==
    IF s = <<>> THEN (IF piece = <<>> THEN <<>> ELSE <<piece>>)
    ELSE IF Head(s) = "-"
         THEN (IF piece = <<>> THEN <<>> ELSE <<piece>>) \o split_nonempty(Tail(s), <<>>)
         ELSE split_nonempty(Tail(s), Append(piece, Head(s)))

\* slugify without the split at '-' and the filter of the empty pieces
slugify_raw(text) == slug_chars(text)

slugify(text) == Join(split_nonempty(slug_chars(text), <<>>), <<"-">>)

count_words(content) == count_tokens(content, FALSE)

\* parse_content. The blocks of a fragment are decided by the event stream of
\* the markdown tokenizer. The empty fragment has no '<details' region and no
\* event, and finalize() on the fresh ParserState (every in_* flag false)
\* pushes nothing: the block list is empty. For any other fragment the block
\* list is left uninterpreted here: a value fixed by the two arguments.
parse_content(markdown, start_line) ==
    IF markdown = <<>> THEN <<>>
    ELSE [parse_content |-> markdown, start_line |-> start_line]

\* a variant that returns early, without children, when the section is empty
RECURSIVE build_section_skip(_, _)
build_section_skip(node, full_content) ==
    LET h == node.heading
        ext == extract_section_content(h, full_content)
    IN [id |-> slugify(h.text),
        level |-> h.level,
        title |-> h.text,
        slug |-> slugify(h.text),
        position |-> [line |-> ext.line, offset |-> ext.offset],
        content |-> [raw |-> ext.raw, blocks |-> parse_content(ext.raw, ext.line)],
        children |-> IF ext.line = 0 THEN <<>>
                     ELSE [i \in 1..Len(node.children) |->
                              build_section_skip(node.children[i], full_content)]]

\* a variant that looks a child up in its parent's raw content
RECURSIVE build_section_nested(_, _)
build_section_nested(node, full_content) ==
    LET h == node.heading
        ext == extract_section_content(h, full_content)
    IN [id |-> slugify(h.text),
        level |-> h.level,
        title |-> h.text,
        slug |-> slugify(h.text),
        position |-> [line |-> ext.line, offset |-> ext.offset],
        content |-> [raw |-> ext.raw, blocks |-> parse_content(ext.raw, ext.line)],
        children |-> [i \in 1..Len(node.children) |->
                         build_section_nested(node.children[i], ext.raw)]]

RECURSIVE build_section(_, _)
build_section(node, full_content) ==
    LET h == node.heading
        ext == extract_section_content(h, full_content)
    IN [id |-> slugify(h.text),
        level |-> h.level,
        title |-> h.text,
        slug |-> slugify(h.text),
        position |-> [line |-> ext.line, offset |-> ext.offset],
        content |-> [raw |-> ext.raw, blocks |-> parse_content(ext.raw, ext.line)],
        children |-> [i \in 1..Len(node.children) |->
                         build_section(node.children[i], full_content)]]

\* a variant that adds the depths of the siblings up instead of taking the
\* largest
RECURSIVE calculate_max_depth_sum(_)
calculate_max_depth_sum(forest) ==
    IF forest = <<>> THEN 0
    ELSE 1 + calculate_max_depth_sum(Head(forest).children)
           + calculate_max_depth_sum(Tail(forest))

RECURSIVE calculate_max_depth(_)
calculate_max_depth(forest) ==
    IF forest = <<>> THEN 0
    ELSE Max({1 + calculate_max_depth(forest[i].children) : i \in 1..Len(forest)})

----------------------------------------------------------------------------
(* Spec: build_json_output assembles the exported tree of a Document.      *)

\* the source lines of the assembled documents
DocLines == { <<HASH, SP, "a">>, <<HASH, HASH, SP, "a">>, <<"x">> }

DocSources == {Join(ls, <<NL>>) : ls \in SeqsUpTo(DocLines, MaxDocLines)}

DocHeadingSeqs ==
    {[i \in 1..Len(ls) |-> Heading(ls[i], TitleOf(p, i))] :
        ls \in SeqsUpTo(1..MaxDocLevel, MaxDocHeadings), p \in TitlePatterns}

\* Option<&Path>: no path, or the path "d"
SourcePaths == {None, [some |-> <<"d">>]}

Init ==
    /\ doc \in {[content |-> c, headings |-> hs] :
                   c \in DocSources, hs \in DocHeadingSeqs}
    /\ pc = "build_tree"
    /\ idx = 0
    /\ stack = <<>>
    /\ tree = <<>>
    /\ OtherIdle

\* builder.rs lines 13 to 21: the metadata
CalculateMetadata ==
    /\ pc = "built"
    /\ \E source_path \in SourcePaths :
           output' = [metadata |->
                         [source |-> source_path,
                          heading_count |-> Len(doc.headings),
                          max_depth |-> calculate_max_depth(tree),
                          word_count |-> count_words(doc.content)]]
    /\ pc' = "metadata"
    /\ UNCHANGED <<doc, idx, stack, tree, heading, scan, result>>
    /\ UNCHANGED <<linkVars, contentVars>>

\* builder.rs lines 24 to 31: the sections, and the DocumentOutput
BuildSections ==
    /\ pc = "metadata"
    /\ output' = [document |->
                     [metadata |-> output.metadata,
                      sections |-> [i \in 1..Len(tree) |->
                                       build_section(tree[i], doc.content)]]]
    /\ pc' = "done"
    /\ UNCHANGED <<doc, idx, stack, tree, heading, scan, result>>
    /\ UNCHANGED <<linkVars, contentVars>>

Next == BuildTreeStep \/ BuildTreeReturn \/ CalculateMetadata \/ BuildSections

Spec == Init /\ [][Next]_vars

----------------------------------------------------------------------------
(* Link extraction (src/parser/links.rs).                                  *)

Some(v) == [some |-> v]

\* Link::new
Link(text, target, offset) == [text |-> text, target |-> target, offset |-> offset]

\* the variants of LinkTarget
Anchor(anchor) == [variant |-> "Anchor", anchor |-> anchor]
External(url) == [variant |-> "External", url |-> url]
RelativeFile(path, anchor) ==
    [variant |-> "RelativeFile", path |-> path, anchor |-> anchor]
WikiLink(target, alias) == [variant |-> "WikiLink", target |-> target, alias |-> alias]

HTTP == <<"h", "t", "t", "p", ":", "/", "/">>
HTTPS == <<"h", "t", "t", "p", "s", ":", "/", "/">>

\* str::rfind of one character, as a 0-based byte index, -1 for None
RECURSIVE rfind_from(_, _, _)
rfind_from(s, ch, i) ==
    IF i = 0 THEN -1 ELSE IF s[i] = ch THEN i - 1 ELSE rfind_from(s, ch, i - 1)

\* parse_link_target with the URL cut at its last '#'
parse_link_target_rsplit(url) ==
    IF starts_with(url, <<HASH>>) THEN Anchor(SliceFrom(url, 1))
    ELSE IF starts_with(url, HTTP) \/ starts_with(url, HTTPS) THEN External(url)
    ELSE LET at == rfind_from(url, HASH, Len(url))
         IN IF at >= 0
            THEN RelativeFile(SliceTo(url, at), Some(SliceFrom(url, at + 1)))
            ELSE RelativeFile(url, None)

\* parse_link_target: strip_prefix('#'), then the two scheme prefixes, then
\* split_once('#')
parse_link_target(url) ==
    IF starts_with(url, <<HASH>>) THEN Anchor(SliceFrom(url, 1))
    ELSE IF starts_with(url, HTTP) \/ starts_with(url, HTTPS) THEN External(url)
    ELSE LET at == find(url, <<HASH>>)
         IN IF at >= 0
            THEN RelativeFile(SliceTo(url, at), Some(SliceFrom(url, at + 1)))
            ELSE RelativeFile(url, None)

\* the first pass of extract_links: one step of its loop over the tokenizer's
\* (event, range) pairs; s holds in_link, link_text, link_url, link_offset
\* and the links pushed so far
link_event(s, ev) ==
    IF ev.event = "StartLink"
    THEN [s EXCEPT !.in_link = TRUE, !.link_url = ev.dest_url,
                   !.link_offset = ev.range_start]
    ELSE IF ev.event = "Text" /\ s.in_link
    THEN [s EXCEPT !.link_text = s.link_text \o ev.text]
    ELSE IF ev.event = "EndLink" /\ s.in_link
    THEN [s EXCEPT !.links = Append(s.links,
                       Link(s.link_text, parse_link_target(s.link_url), s.link_offset)),
                   !.link_text = <<>>, !.link_url = <<>>, !.in_link = FALSE]
    ELSE s

RECURSIVE link_events(_, _, _)
link_events(s, evs, i) ==
    IF i > Len(evs) THEN s ELSE link_events(link_event(s, evs[i]), evs, i + 1)

\* the links of the tokenizer pass
markdown_links(evs) ==
    link_events([in_link |-> FALSE, link_text |-> <<>>, link_url |-> <<>>,
                 link_offset |-> 0, links |-> <<>>], evs, 1).links

\* the inner loop of extract_wikilinks with a run that the end of the input
\* closes as well
RECURSIVE wikilink_run_open(_, _, _)
wikilink_run_open(content, j, wikilink_content) ==
    IF j > Len(content)
    THEN [found_closing |-> TRUE, wikilink_content |-> wikilink_content, next |-> j]
    ELSE IF content[j] = "]" /\ j + 1 <= Len(content) /\ content[j + 1] = "]"
    THEN [found_closing |-> TRUE, wikilink_content |-> wikilink_content, next |-> j + 2]
    ELSE wikilink_run_open(content, j + 1, Append(wikilink_content, content[j]))

\* the inner loop of extract_wikilinks, from the character at (1-based) j on:
\* the run read up to the first "]]", whether it was closed, and the
\* character the outer loop goes on with
RECURSIVE wikilink_run(_, _, _)
wikilink_run(content, j, wikilink_content) ==
    IF j > Len(content)
    THEN [found_closing |-> FALSE, wikilink_content |-> wikilink_content, next |-> j]
    ELSE IF content[j] = "]" /\ j + 1 <= Len(content) /\ content[j + 1] = "]"
    THEN [found_closing |-> TRUE, wikilink_content |-> wikilink_content, next |-> j + 2]
    ELSE wikilink_run(content, j + 1, Append(wikilink_content, content[j]))

\* the Link of a run whose display text is always the target
wikilink_plain(wikilink_content, offset) ==
    LET bar == find(wikilink_content, <<"|">>)
    IN IF bar >= 0
       THEN Link(trim(SliceTo(wikilink_content, bar)),
                 WikiLink(trim(SliceTo(wikilink_content, bar)),
                          Some(trim(SliceFrom(wikilink_content, bar + 1)))),
                 offset)
       ELSE Link(trim(wikilink_content), WikiLink(trim(wikilink_content), None), offset)

\* the Link of a closed, non-empty run: split_once('|') and the trims
wikilink(wikilink_content, offset) ==
    LET bar == find(wikilink_content, <<"|">>)
    IN IF bar >= 0
       THEN Link(trim(SliceFrom(wikilink_content, bar + 1)),
                 WikiLink(trim(SliceTo(wikilink_content, bar)),
                          Some(trim(SliceFrom(wikilink_content, bar + 1)))),
                 offset)
       ELSE Link(trim(wikilink_content), WikiLink(trim(wikilink_content), None), offset)

\* the outer loop of extract_wikilinks, from the character at (1-based) i on
RECURSIVE wikilinks_from(_, _)
wikilinks_from(content, i) ==
    IF i > Len(content) THEN <<>>
    ELSE IF content[i] = "[" /\ i + 1 <= Len(content) /\ content[i + 1] = "["
    THEN LET run == wikilink_run(content, i + 2, <<>>)
         IN (IF run.found_closing /\ run.wikilink_content # <<>>
             THEN <<wikilink(run.wikilink_content, i - 1)>> ELSE <<>>)
            \o wikilinks_from(content, run.next)
    ELSE wikilinks_from(content, i + 1)

\* extract_wikilinks putting its links in front of the ones it is handed
extract_wikilinks_front(content, found) == wikilinks_from(content, 1) \o found

\* extract_wikilinks(content, &mut links): the wikilinks are pushed behind
\* the links it is handed
extract_wikilinks(content, found) == found \o wikilinks_from(content, 1)

\* extract_links: the tokenizer pass, then the wikilink pass
extract_links(content, evs) == extract_wikilinks(content, markdown_links(evs))

----------------------------------------------------------------------------
(* SpecLinks: extract_links on sources built from inline links, wikilink   *)
(* runs and plain words, separated by single spaces.                       *)

\* most segments of a source scanned in SpecLinks
MaxSegments == 3

\* the segments: their source text and, for an inline link, the label and
\* the destination the tokenizer reports
LinkSegments ==
    { [src |-> <<"[", "t", "]", "(", "#", "a", ")">>, link |-> TRUE,
       label |-> <<"t">>, dest_url |-> <<"#", "a">>],
      [src |-> <<"[", "u", "]", "(", "p", ")">>, link |-> TRUE,
       label |-> <<"u">>, dest_url |-> <<"p">>],
      [src |-> <<"[", "[", "w", "]", "]">>, link |-> FALSE,
       label |-> <<>>, dest_url |-> <<>>],
      [src |-> <<"[", "[", " ", "w", " ", "|", "a", " ", "|", "b", "]", "]">>, link |-> FALSE,
       label |-> <<>>, dest_url |-> <<>>],
      [src |-> <<"[", "[", "w">>, link |-> FALSE,
       label |-> <<>>, dest_url |-> <<>>],
      [src |-> <<"[", "[", "]", "]">>, link |-> FALSE,
       label |-> <<>>, dest_url |-> <<>>],
      [src |-> <<"]", "x">>, link |-> FALSE,
       label |-> <<>>, dest_url |-> <<>>] }

\* the source text of a segment sequence
RECURSIVE segments_text(_)
segments_text(segs) ==
    IF segs = <<>> THEN <<>>
    ELSE IF Len(segs) = 1 THEN segs[1].src
    ELSE segs[1].src \o <<SP>> \o segments_text(Tail(segs))

\* Parser::new(content).into_offset_iter() on such a source: an inline link
\* gives the Start, Text and End events of a Link tag, the Start with the
\* destination and the byte range of the link; every other segment is text
RECURSIVE tokenize(_, _)
tokenize(segs, offset) ==
    IF segs = <<>> THEN <<>>
    ELSE LET seg == segs[1]
             evs == IF seg.link
                    THEN << [event |-> "StartLink", dest_url |-> seg.dest_url,
                             range_start |-> offset, text |-> <<>>],
                            [event |-> "Text", dest_url |-> <<>>,
                             range_start |-> offset + 1, text |-> seg.label],
                            [event |-> "EndLink", dest_url |-> <<>>,
                             range_start |-> offset, text |-> <<>>] >>
                    ELSE << [event |-> "Text", dest_url |-> <<>>,
                             range_start |-> offset, text |-> seg.src] >>
         IN evs \o tokenize(Tail(segs), offset + Len(seg.src) + 1)

LinksInit ==
    /\ \E segs \in SeqsUpTo(LinkSegments, MaxSegments) :
          /\ doc = [content |-> segments_text(segs), headings |-> <<>>]
          /\ tokens = tokenize(segs, 0)
    /\ pc = "links"
    /\ links = <<>>
    /\ arg = None
    /\ idx = 0
    /\ stack = <<>>
    /\ tree = <<>>
    /\ output = None
    /\ heading = None
    /\ scan = None
    /\ result = None
    /\ ContentIdle

ExtractLinks ==
    /\ pc = "links"
    /\ links' = extract_links(doc.content, tokens)
    /\ pc' = "done"
    /\ UNCHANGED <<doc, idx, stack, tree, output, heading, scan, result>>
    /\ UNCHANGED <<arg, tokens, contentVars>>

LinksNext == ExtractLinks

SpecLinks == LinksInit /\ [][LinksNext]_vars

----------------------------------------------------------------------------
(* utils::get_heading_level (src/parser/utils.rs).                         *)

\* the loop without the upper limit of the level
RECURSIVE utils_heading_level_unlimited(_, _)
utils_heading_level_unlimited(chars, level) ==
    IF chars = <<>> THEN None
    ELSE IF Head(chars) = HASH
    THEN utils_heading_level_unlimited(Tail(chars), level + 1)
    ELSE IF is_whitespace(Head(chars))
    THEN (IF level > 0 THEN Some(level) ELSE None)
    ELSE None

\* the loop of utils::get_heading_level over the characters of the trimmed
\* line: count the '#', return at the first whitespace, break at anything else
RECURSIVE utils_heading_level_loop(_, _)
utils_heading_level_loop(chars, level) ==
    IF chars = <<>> THEN None
    ELSE IF Head(chars) = HASH
    THEN utils_heading_level_loop(Tail(chars), level + 1)
    ELSE IF is_whitespace(Head(chars))
    THEN (IF level > 0 /\ level <= MaxLevel THEN Some(level) ELSE None)
    ELSE None

utils_get_heading_level(line) == utils_heading_level_loop(trim_start(line), 0)

----------------------------------------------------------------------------
(* SpecUtil: the pure functions parse_link_target, slugify and             *)
(* utils::get_heading_level, each applied once to an argument.             *)

\* longest URL body behind a prefix handed to parse_link_target
MaxUrlBody == 3
\* longest text handed to slugify
MaxSlugLen == 4
\* longest line handed to utils::get_heading_level
MaxLineLen == 8

\* the URLs: nothing, a scheme or a cut scheme, then '#', '/' and letters
UrlPrefixes == {<<>>, HTTP, HTTPS, <<"h", "t", "t", "p", ":", "/">>}
Urls == {p \o b : p \in UrlPrefixes, b \in SeqsUpTo({HASH, "/", "x"}, MaxUrlBody)}

\* the texts: letters of both cases, a digit, '-', a blank and punctuation
SlugTexts == SeqsUpTo({"a", "B", "1", "-", SP, "!"}, MaxSlugLen)

\* the lines: '#', blanks and a letter
LevelLines == SeqsUpTo({HASH, SP, "x"}, MaxLineLen)

UtilInit ==
    /\ \/ pc = "parse_link_target" /\ arg \in Urls
       \/ pc = "slugify" /\ arg \in SlugTexts
       \/ pc = "get_heading_level" /\ arg \in LevelLines
    /\ result = None
    /\ doc = [content |-> <<>>, headings |-> <<>>]
    /\ tokens = <<>>
    /\ links = <<>>
    /\ idx = 0
    /\ stack = <<>>
    /\ tree = <<>>
    /\ output = None
    /\ heading = None
    /\ scan = None
    /\ ContentIdle

ParseLinkTarget ==
    /\ pc = "parse_link_target"
    /\ result' = [of |-> "parse_link_target", value |-> parse_link_target(arg)]
    /\ pc' = "done"
    /\ UNCHANGED <<doc, idx, stack, tree, output, heading, scan>>
    /\ UNCHANGED <<linkVars, contentVars>>

\* slugify, and slugify again on what it returned
Slugify ==
    /\ pc = "slugify"
    /\ result' = [of |-> "slugify", value |-> slugify(arg),
                  again |-> slugify(slugify(arg))]
    /\ pc' = "done"
    /\ UNCHANGED <<doc, idx, stack, tree, output, heading, scan>>
    /\ UNCHANGED <<linkVars, contentVars>>

GetHeadingLevel ==
    /\ pc = "get_heading_level"
    /\ result' = [of |-> "get_heading_level", value |-> utils_get_heading_level(arg)]
    /\ pc' = "done"
    /\ UNCHANGED <<doc, idx, stack, tree, output, heading, scan>>
    /\ UNCHANGED <<linkVars, contentVars>>

UtilNext == ParseLinkTarget \/ Slugify \/ GetHeadingLevel

SpecUtil == UtilInit /\ [][UtilNext]_vars

----------------------------------------------------------------------------
(* The content parser (src/parser/content.rs): ParserState, its flushes,   *)
(* and the arms of process_event for paragraphs, code blocks, lists, list  *)
(* items, task-list markers and text.  Every arm takes the ParserState s   *)
(* and the top-level blocks bl and yields both as they are after the arm.  *)

\* ParserState::new(start_line)
ParserState_new(start_line) ==
    [ current_line |-> start_line,
      paragraph_buffer |-> <<>>,
      inline_buffer |-> <<>>,
      list_items |-> <<>>,
      list_ordered |-> FALSE,
      list_depth |-> 0,
      item_depth |-> 0,
      task_list_marker |-> None,
      saved_task_markers |-> <<>>,
      item_blocks |-> <<>>,
      code_buffer |-> <<>>,
      code_language |-> None,
      code_start_line |-> 0,
      blockquote_buffer |-> <<>>,
      table_headers |-> <<>>,
      table_alignments |-> <<>>,
      table_rows |-> <<>>,
      current_row |-> <<>>,
      heading_level |-> None,
      heading_buffer |-> <<>>,
      heading_inline |-> <<>>,
      in_paragraph |-> FALSE,
      in_list |-> FALSE,
      in_code |-> FALSE,
      in_blockquote |-> FALSE,
      in_table |-> FALSE,
      in_heading |-> FALSE,
      in_strong |-> FALSE,
      in_emphasis |-> FALSE,
      in_strikethrough |-> FALSE,
      in_code_inline |-> FALSE,
      in_link |-> FALSE,
      link_url |-> <<>>,
      link_text |-> <<>>,
      image_in_link |-> FALSE,
      in_image |-> FALSE,
      saved_link_url |-> <<>> ]

\* the variants of Block built by these arms, and ListItem
ParagraphBlock(content, inline) ==
    [block |-> "Paragraph", content |-> content, inline |-> inline]
CodeBlock(language, content, start_line, end_line) ==
    [block |-> "Code", language |-> language, content |-> content,
     start_line |-> start_line, end_line |-> end_line]
ListBlock(ordered, items) == [block |-> "List", ordered |-> ordered, items |-> items]
BlockquoteBlock(content, nested) ==
    [block |-> "Blockquote", content |-> content, blocks |-> nested]
TableBlock(headers, alignments, rows) ==
    [block |-> "Table", headers |-> headers, alignments |-> alignments, rows |-> rows]
ListItem(checked, content, inline, item_blocks) ==
    [checked |-> checked, content |-> content, inline |-> inline, blocks |-> item_blocks]

\* the variants of InlineElement that carry one value
InlineElement(variant, value) == [inline |-> variant, value |-> value]

\* the ParserState and the blocks, as an arm leaves them
After(s, bl) == [state |-> s, blocks |-> bl]

\* str::repeat
RECURSIVE repeat_str(_, _)
repeat_str(str, n) == IF n = 0 THEN <<>> ELSE str \o repeat_str(str, n - 1)

\* usize::saturating_sub(1)
saturating_sub_1(n) == IF n = 0 THEN 0 ELSE n - 1

flush_paragraph(s, bl) ==
    IF s.in_paragraph /\ s.paragraph_buffer # <<>>
    THEN After([s EXCEPT !.paragraph_buffer = <<>>, !.inline_buffer = <<>>,
                         !.in_paragraph = FALSE],
               Append(bl, ParagraphBlock(s.paragraph_buffer, s.inline_buffer)))
    ELSE After(s, bl)

flush_list(s, bl) ==
    IF s.in_list /\ s.list_items # <<>>
    THEN After([s EXCEPT !.list_items = <<>>, !.in_list = FALSE],
               Append(bl, ListBlock(s.list_ordered, s.list_items)))
    ELSE After(s, bl)

flush_code(s, bl) ==
    IF s.in_code /\ s.code_buffer # <<>>
    THEN After([s EXCEPT !.code_buffer = <<>>, !.code_language = None,
                         !.in_code = FALSE],
               Append(bl, CodeBlock(s.code_language, trim_end(s.code_buffer),
                                    s.code_start_line, s.current_line)))
    ELSE After(s, bl)

flush_blockquote(s, bl) ==
    IF s.in_blockquote /\ s.blockquote_buffer # <<>>
    THEN After([s EXCEPT !.blockquote_buffer = <<>>, !.in_blockquote = FALSE],
               Append(bl, BlockquoteBlock(s.blockquote_buffer,
                              parse_content(s.blockquote_buffer, s.current_line))))
    ELSE After(s, bl)

flush_table(s, bl) ==
    IF s.in_table /\ s.table_headers # <<>>
    THEN After([s EXCEPT !.table_headers = <<>>, !.table_alignments = <<>>,
                         !.table_rows = <<>>, !.current_row = <<>>,
                         !.paragraph_buffer = <<>>, !.inline_buffer = <<>>,
                         !.in_table = FALSE],
               Append(bl, TableBlock(s.table_headers, s.table_alignments, s.table_rows)))
    ELSE After(s, bl)

\* ParserState::finalize: the five flushes in their order
finalize(s, bl) ==
    LET p == flush_paragraph(s, bl)
        l == flush_list(p.state, p.blocks)
        c == flush_code(l.state, l.blocks)
        q == flush_blockquote(c.state, c.blocks)
    IN flush_table(q.state, q.blocks)

\* ParserState::add_inline_text
add_inline_text(s, text) ==
    IF text = <<>> THEN s
    ELSE LET variant == IF s.in_code_inline THEN "Code"
                        ELSE IF s.in_strong THEN "Strong"
                        ELSE IF s.in_emphasis THEN "Emphasis"
                        ELSE IF s.in_strikethrough THEN "Strikethrough"
                        ELSE "Text"
         IN [s EXCEPT !.inline_buffer = Append(@, InlineElement(variant, text)),
                      !.paragraph_buffer = @ \o text]

\* Event::Start(Tag::Paragraph)
start_paragraph(s, bl) == After([s EXCEPT !.in_paragraph = TRUE], bl)

\* Event::End(TagEnd::Paragraph)
end_paragraph(s, bl) ==
    IF s.item_depth >= 1 /\ s.in_paragraph /\ s.paragraph_buffer # <<>>
    THEN After([s EXCEPT !.item_blocks =
                             Append(@, ParagraphBlock(s.paragraph_buffer, s.inline_buffer)),
                         !.paragraph_buffer = <<>>, !.inline_buffer = <<>>,
                         !.in_paragraph = FALSE],
               bl)
    ELSE flush_paragraph(s, bl)

\* a variant that does not note the line the code block starts at
start_code_block_unlined(s, bl, lang) ==
    After([s EXCEPT !.in_code = TRUE,
                    !.code_language = IF lang = <<>> THEN None ELSE Some(lang)],
          bl)

\* Event::Start(Tag::CodeBlock(kind)); lang is the empty string for an
\* indented block and for a fence without an info string
start_code_block(s, bl, lang) ==
    After([s EXCEPT !.in_code = TRUE, !.code_start_line = s.current_line,
                    !.code_language = IF lang = <<>> THEN None ELSE Some(lang)],
          bl)

\* Event::End(TagEnd::CodeBlock)
end_code_block(s, bl) ==
    IF s.item_depth >= 1 /\ s.in_code /\ s.code_buffer # <<>>
    THEN After([s EXCEPT !.item_blocks =
                             Append(@, CodeBlock(s.code_language, trim_end(s.code_buffer),
                                                 s.code_start_line, s.current_line)),
                         !.code_buffer = <<>>, !.code_language = None,
                         !.in_code = FALSE],
               bl)
    ELSE flush_code(s, bl)

\* Event::Start(Tag::List(start_number)); ordered is start_number.is_some()
start_list(s, bl, ordered) ==
    LET depth == s.list_depth + 1
    IN After(IF depth = 1
             THEN [s EXCEPT !.list_depth = depth, !.in_list = TRUE,
                            !.list_ordered = ordered]
             ELSE [s EXCEPT !.list_depth = depth],
             bl)

\* Event::End(TagEnd::List)
end_list(s, bl) ==
    LET depth == saturating_sub_1(s.list_depth)
        t == [s EXCEPT !.list_depth = depth]
    IN IF depth = 0 THEN flush_list(t, bl) ELSE After(t, bl)

\* Event::Start(Tag::Item) without the save of the pending task marker
start_item_nosave(s, bl) ==
    LET depth == s.item_depth + 1
    IN After(IF depth = 1
             THEN [s EXCEPT !.item_depth = depth, !.paragraph_buffer = <<>>,
                            !.inline_buffer = <<>>, !.item_blocks = <<>>]
             ELSE [s EXCEPT !.item_depth = depth],
             bl)

\* Event::Start(Tag::Item)
start_item(s, bl) ==
    LET depth == s.item_depth + 1
        t == IF depth > 1
             THEN [s EXCEPT !.item_depth = depth,
                            !.saved_task_markers = Append(@, s.task_list_marker),
                            !.task_list_marker = None]
             ELSE [s EXCEPT !.item_depth = depth]
    IN After(IF depth = 1
             THEN [t EXCEPT !.paragraph_buffer = <<>>, !.inline_buffer = <<>>,
                            !.item_blocks = <<>>]
             ELSE t,
             bl)

\* the ListItem of Event::End(TagEnd::Item) with a first paragraph that stays
\* among the sub-blocks
list_item_keep_first(s) ==
    IF s.paragraph_buffer # <<>>
    THEN ListItem(s.task_list_marker, s.paragraph_buffer, s.inline_buffer, s.item_blocks)
    ELSE IF s.item_blocks # <<>> /\ s.item_blocks[1].block = "Paragraph"
    THEN ListItem(s.task_list_marker, s.item_blocks[1].content,
                  s.item_blocks[1].inline, s.item_blocks)
    ELSE ListItem(s.task_list_marker, <<>>, <<>>, s.item_blocks)

\* the ListItem of Event::End(TagEnd::Item) at item depth 1: content, inline
\* and the remaining blocks by the three cases, checked from the pending
\* task marker
list_item(s) ==
    IF s.paragraph_buffer # <<>>
    THEN ListItem(s.task_list_marker, s.paragraph_buffer, s.inline_buffer, s.item_blocks)
    ELSE IF s.item_blocks # <<>> /\ s.item_blocks[1].block = "Paragraph"
    THEN ListItem(s.task_list_marker, s.item_blocks[1].content,
                  s.item_blocks[1].inline, Tail(s.item_blocks))
    ELSE ListItem(s.task_list_marker, <<>>, <<>>, s.item_blocks)

\* Event::End(TagEnd::Item)
end_item(s, bl) ==
    LET t == IF s.item_depth > 1 /\ s.saved_task_markers # <<>>
             THEN [s EXCEPT !.task_list_marker =
                                s.saved_task_markers[Len(s.saved_task_markers)],
                            !.saved_task_markers =
                                SubSeq(@, 1, Len(s.saved_task_markers) - 1)]
             ELSE s
        u == IF t.item_depth = 1
             THEN [t EXCEPT !.list_items = Append(@, list_item(t)),
                            !.paragraph_buffer = <<>>, !.inline_buffer = <<>>,
                            !.item_blocks = <<>>, !.task_list_marker = None]
             ELSE t
    IN After([u EXCEPT !.item_depth = saturating_sub_1(t.item_depth)], bl)

\* Event::TaskListMarker(checked)
task_list_marker(s, bl, checked) ==
    After([s EXCEPT !.task_list_marker = Some(checked)], bl)

CheckedMarker == <<"[", "x", "]", SP>>
UncheckedMarker == <<"[", SP, "]", SP>>

\* the text arm's lines for a nested list item: the newline, the
\* indentation and the checkbox of a pending task marker
nested_item_prefix(s) ==
    LET broken == IF s.paragraph_buffer # <<>>
                     /\ s.paragraph_buffer[Len(s.paragraph_buffer)] # NL
                  THEN s.paragraph_buffer \o <<NL>> ELSE s.paragraph_buffer
        indented == broken \o repeat_str(<<SP, SP>>, s.item_depth - 1)
    IN IF s.task_list_marker # None
       THEN [s EXCEPT !.paragraph_buffer =
                          indented \o (IF s.task_list_marker.some
                                       THEN CheckedMarker ELSE UncheckedMarker),
                      !.task_list_marker = None]
       ELSE [s EXCEPT !.paragraph_buffer = indented]

\* Event::Text(text)
text_event(s, bl, text) ==
    IF s.in_code THEN After([s EXCEPT !.code_buffer = @ \o text], bl)
    ELSE IF s.in_blockquote THEN After([s EXCEPT !.blockquote_buffer = @ \o text], bl)
    ELSE IF s.in_heading
    THEN LET variant == IF s.in_code_inline THEN "Code"
                        ELSE IF s.in_strong THEN "Strong"
                        ELSE IF s.in_emphasis THEN "Emphasis"
                        ELSE "Text"
         IN After([s EXCEPT !.heading_buffer = @ \o text,
                            !.heading_inline = Append(@, InlineElement(variant, text))],
                  bl)
    ELSE IF s.in_link \/ s.in_image THEN After([s EXCEPT !.link_text = @ \o text], bl)
    ELSE After(add_inline_text(IF s.in_list /\ s.item_depth > 1
                               THEN nested_item_prefix(s) ELSE s,
                               text),
               bl)

\* the remaining blocks and inline elements of content.rs
ImageBlock(alt, src, title) ==
    [block |-> "Image", alt |-> alt, src |-> src, title |-> title]
HorizontalRule == [block |-> "HorizontalRule"]
HeadingBlock(level, content, inline) ==
    [block |-> "Heading", level |-> level, content |-> content, inline |-> inline]
DetailsBlock(summary, content, nested) ==
    [block |-> "Details", summary |-> summary, content |-> content,
     blocks |-> nested]
InlineLink(text, url) ==
    [inline |-> "Link", text |-> text, url |-> url, title |-> None]
InlineImage(alt, src, title) ==
    [inline |-> "Image", alt |-> alt, src |-> src, title |-> title]

\* format!("[{}]({})", text, url)
link_markup(text, url) == <<"[">> \o text \o <<"]", "(">> \o url \o <<")">>

\* Event::Start(Tag::BlockQuote(_))
start_blockquote(s, bl) == After([s EXCEPT !.in_blockquote = TRUE], bl)

\* Event::End(TagEnd::BlockQuote(_))
end_blockquote(s, bl) == flush_blockquote(s, bl)

\* Event::Start(Tag::Table(alignments))
alignment_of(a) ==
    CASE a = "CmarkLeft" -> "Left"
      [] a = "CmarkCenter" -> "Center"
      [] a = "CmarkRight" -> "Right"
      [] a = "CmarkNone" -> "None"
start_table(s, bl, alignments) ==
    After([s EXCEPT !.in_table = TRUE,
                    !.table_alignments =
                        [i \in DOMAIN alignments |-> alignment_of(alignments[i])]],
          bl)

\* Event::End(TagEnd::Table)
end_table(s, bl) == flush_table(s, bl)

\* Event::End(TagEnd::TableHead)
end_table_head(s, bl) ==
    After([s EXCEPT !.table_headers = s.current_row, !.current_row = <<>>], bl)

\* Event::End(TagEnd::TableRow)
end_table_row(s, bl) ==
    After([s EXCEPT !.table_rows = Append(@, s.current_row),
                    !.current_row = <<>>],
          bl)

\* Event::Start(Tag::TableCell)
start_table_cell(s, bl) ==
    After([s EXCEPT !.paragraph_buffer = <<>>, !.inline_buffer = <<>>], bl)

\* Event::End(TagEnd::TableCell)
end_table_cell(s, bl) ==
    After([s EXCEPT !.current_row = Append(@, s.paragraph_buffer),
                    !.paragraph_buffer = <<>>, !.inline_buffer = <<>>],
          bl)

\* Event::Start / Event::End of Strong, Emphasis and Strikethrough
set_strong(s, bl, on) == After([s EXCEPT !.in_strong = on], bl)
set_emphasis(s, bl, on) == After([s EXCEPT !.in_emphasis = on], bl)
set_strikethrough(s, bl, on) == After([s EXCEPT !.in_strikethrough = on], bl)

\* Event::Code(text): the inline code goes to add_inline_text whatever the
\* parser is in
code_event(s, bl, text) ==
    After([add_inline_text([s EXCEPT !.in_code_inline = TRUE], text)
              EXCEPT !.in_code_inline = FALSE],
          bl)

\* Event::Start(Tag::Link { dest_url, .. })
start_link(s, bl, dest_url) ==
    After([s EXCEPT !.in_link = TRUE, !.link_url = dest_url,
                    !.link_text = <<>>],
          bl)

\* the url End(Link) gives the link: saved_link_url behind an image
end_link_url(s) == IF s.image_in_link THEN s.saved_link_url ELSE s.link_url

\* Event::End(TagEnd::Link)
end_link(s, bl) ==
    After([s EXCEPT !.in_link = FALSE,
                    !.inline_buffer =
                        Append(@, InlineLink(s.link_text, end_link_url(s))),
                    !.paragraph_buffer =
                        @ \o link_markup(s.link_text, end_link_url(s)),
                    !.link_text = <<>>, !.link_url = <<>>,
                    !.saved_link_url = <<>>, !.image_in_link = FALSE],
          bl)

\* Event::Start(Tag::Image { dest_url, title, .. })
start_image(s, bl, dest_url, title) ==
    LET t == IF s.in_link
             THEN [s EXCEPT !.image_in_link = TRUE,
                            !.saved_link_url = s.link_url]
             ELSE s
    IN After([t EXCEPT !.in_image = TRUE, !.link_url = dest_url,
                       !.link_text = <<>>, !.paragraph_buffer = title],
             bl)

\* the title End(Image) reads back from the paragraph buffer
image_title(s) ==
    IF s.paragraph_buffer = <<>> THEN None ELSE Some(s.paragraph_buffer)

\* Event::End(TagEnd::Image)
end_image(s, bl) ==
    LET t == [s EXCEPT !.in_image = FALSE]
    IN IF t.image_in_link THEN After(t, bl)
       ELSE IF t.in_paragraph
       THEN After([t EXCEPT !.inline_buffer =
                                Append(@, InlineImage(t.link_text, t.link_url,
                                                      image_title(t))),
                            !.link_text = <<>>, !.link_url = <<>>,
                            !.paragraph_buffer = <<>>],
                  bl)
       ELSE LET f == flush_paragraph(t, bl)
            IN After([f.state EXCEPT !.link_text = <<>>, !.link_url = <<>>,
                                     !.paragraph_buffer = <<>>],
                     Append(f.blocks,
                            ImageBlock(f.state.link_text, f.state.link_url,
                                       image_title(f.state))))

\* Event::SoftBreak and Event::HardBreak: the break character, in a
\* paragraph only
break_event(s, bl, ch) ==
    IF s.in_paragraph
    THEN After([s EXCEPT !.paragraph_buffer = Append(@, ch),
                         !.inline_buffer =
                             Append(@, InlineElement("Text", <<ch>>))],
               bl)
    ELSE After(s, bl)

\* Event::Rule
rule_event(s, bl) ==
    LET f == flush_paragraph(s, bl)
    IN After(f.state, Append(f.blocks, HorizontalRule))

\* Event::Start(Tag::Heading { level, .. })
start_heading(s, bl, level) ==
    LET f == flush_paragraph(s, bl)
    IN After([f.state EXCEPT !.in_heading = TRUE,
                             !.heading_level = Some(level),
                             !.heading_buffer = <<>>,
                             !.heading_inline = <<>>],
             f.blocks)

\* Event::End(TagEnd::Heading(_))
end_heading(s, bl) ==
    After([s EXCEPT !.in_heading = FALSE, !.heading_level = None,
                    !.heading_buffer = <<>>, !.heading_inline = <<>>],
          IF s.in_heading /\ s.heading_buffer # <<>> /\ s.heading_level # None
          THEN Append(bl, HeadingBlock(s.heading_level.some, s.heading_buffer,
                                       s.heading_inline))
          ELSE bl)

\* the tokenizer's events, one shape for all: the tag, the text of a Text
\* event or the language of a code block, the flag of a task marker
\* (checked) or of a list (ordered)
Event(tag, text, flag) == [tag |-> tag, text |-> text, flag |-> flag]
\* the start of a link or an image carries its destination and its title,
\* the start of a table its alignments, the start of a heading its level
LinkEvent(tag, dest_url, title) ==
    [tag |-> tag, text |-> dest_url, flag |-> FALSE, title |-> title]
TableEvent(alignments) ==
    [tag |-> "StartTable", text |-> <<>>, flag |-> FALSE,
     alignments |-> alignments]
HeadingEvent(level) ==
    [tag |-> "StartHeading", text |-> <<>>, flag |-> FALSE, level |-> level]

\* process_event: the match on the event
process_event(ev, s, bl) ==
    CASE ev.tag = "StartParagraph" -> start_paragraph(s, bl)
      [] ev.tag = "EndParagraph" -> end_paragraph(s, bl)
      [] ev.tag = "StartCodeBlock" -> start_code_block(s, bl, ev.text)
      [] ev.tag = "EndCodeBlock" -> end_code_block(s, bl)
      [] ev.tag = "StartList" -> start_list(s, bl, ev.flag)
      [] ev.tag = "EndList" -> end_list(s, bl)
      [] ev.tag = "StartItem" -> start_item(s, bl)
      [] ev.tag = "EndItem" -> end_item(s, bl)
      [] ev.tag = "TaskListMarker" -> task_list_marker(s, bl, ev.flag)
      [] ev.tag = "StartBlockQuote" -> start_blockquote(s, bl)
      [] ev.tag = "EndBlockQuote" -> end_blockquote(s, bl)
      [] ev.tag = "StartTable" -> start_table(s, bl, ev.alignments)
      [] ev.tag = "EndTable" -> end_table(s, bl)
      [] ev.tag = "EndTableHead" -> end_table_head(s, bl)
      [] ev.tag = "EndTableRow" -> end_table_row(s, bl)
      [] ev.tag = "StartTableCell" -> start_table_cell(s, bl)
      [] ev.tag = "EndTableCell" -> end_table_cell(s, bl)
      [] ev.tag = "StartStrong" -> set_strong(s, bl, TRUE)
      [] ev.tag = "EndStrong" -> set_strong(s, bl, FALSE)
      [] ev.tag = "StartEmphasis" -> set_emphasis(s, bl, TRUE)
      [] ev.tag = "EndEmphasis" -> set_emphasis(s, bl, FALSE)
      [] ev.tag = "StartStrikethrough" -> set_strikethrough(s, bl, TRUE)
      [] ev.tag = "EndStrikethrough" -> set_strikethrough(s, bl, FALSE)
      [] ev.tag = "Code" -> code_event(s, bl, ev.text)
      [] ev.tag = "StartLink" -> start_link(s, bl, ev.text)
      [] ev.tag = "EndLink" -> end_link(s, bl)
      [] ev.tag = "StartImage" -> start_image(s, bl, ev.text, ev.title)
      [] ev.tag = "EndImage" -> end_image(s, bl)
      [] ev.tag = "Text" -> text_event(s, bl, ev.text)
      [] ev.tag = "SoftBreak" -> break_event(s, bl, SP)
      [] ev.tag = "HardBreak" -> break_event(s, bl, NL)
      [] ev.tag = "Rule" -> rule_event(s, bl)
      [] ev.tag = "StartHeading" -> start_heading(s, bl, ev.level)
      [] ev.tag = "EndHeading" -> end_heading(s, bl)
      \* Start(TableHead), Start(TableRow) and every other event: {}
      [] OTHER -> After(s, bl)

----------------------------------------------------------------------------
(* SpecContent: parse_content's loop over the events of the tokenizer,     *)
(* which come well nested as the markdown grammar nests them, and the      *)
(* final flush.                                                            *)

\* longest event stream fed to process_event
MaxEvents == 12
\* deepest nesting of lists in the event stream
MaxListDepth == 2

\* the texts of the Text events outside and inside a code block
InlineTexts == {<<"a">>, <<"b">>}
CodeTexts == {<<"c", NL>>}

Top == IF tags = <<>> THEN [tag |-> "Document", tight |-> FALSE] ELSE tags[Len(tags)]
LastEvent == IF events = <<>> THEN Event("None", <<>>, FALSE) ELSE events[Len(events)]
Pop(s) == SubSeq(s, 1, Len(s) - 1)
OpenLists == Len(SelectSeq(tags, LAMBDA t : t.tag = "List"))

\* the stream has room for the event and for the ends of the open tags
RoomFor(n) == pc = "events" /\ Len(events) + Len(tags) + n <= MaxEvents

\* one turn of the loop of parse_content
Feed(ev) ==
    /\ state' = process_event(ev, state, blocks).state
    /\ blocks' = process_event(ev, state, blocks).blocks
    /\ events' = Append(events, ev)
    /\ UNCHANGED <<doc, pc, idx, stack, tree, output, heading, scan, result>>
    /\ UNCHANGED linkVars

ContentInit ==
    /\ pc = "events"
    /\ state = ParserState_new(1)
    /\ blocks = <<>>
    /\ events = <<>>
    /\ tags = <<>>
    /\ doc = [content |-> <<>>, headings |-> <<>>]
    /\ idx = 0
    /\ stack = <<>>
    /\ tree = <<>>
    /\ output = None
    /\ heading = None
    /\ scan = None
    /\ result = None
    /\ LinkIdle

\* a paragraph opens at the top level or in an item of a loose list
StartParagraph ==
    /\ RoomFor(3)
    /\ Top.tag = "Document" \/ (Top.tag = "Item" /\ ~Top.tight)
    /\ tags' = Append(tags, [tag |-> "Paragraph", tight |-> FALSE])
    /\ Feed(Event("StartParagraph", <<>>, FALSE))

\* a paragraph closes behind its text
EndParagraph ==
    /\ pc = "events"
    /\ Top.tag = "Paragraph"
    /\ LastEvent.tag = "Text"
    /\ tags' = Pop(tags)
    /\ Feed(Event("EndParagraph", <<>>, FALSE))

\* a code block opens at the top level or in a list item
StartCodeBlock ==
    /\ RoomFor(2)
    /\ Top.tag \in {"Document", "Item"}
    /\ tags' = Append(tags, [tag |-> "CodeBlock", tight |-> FALSE])
    /\ Feed(Event("StartCodeBlock", <<>>, FALSE))

EndCodeBlock ==
    /\ pc = "events"
    /\ Top.tag = "CodeBlock"
    /\ tags' = Pop(tags)
    /\ Feed(Event("EndCodeBlock", <<>>, FALSE))

\* a list, tight or loose, opens at the top level or in a list item
StartList ==
    /\ RoomFor(4)
    /\ Top.tag \in {"Document", "Item"}
    /\ OpenLists < MaxListDepth
    /\ \E tight \in BOOLEAN :
          tags' = Append(tags, [tag |-> "List", tight |-> tight])
    /\ Feed(Event("StartList", <<>>, FALSE))

\* a list closes behind its last item
EndList ==
    /\ pc = "events"
    /\ Top.tag = "List"
    /\ LastEvent.tag = "EndItem"
    /\ tags' = Pop(tags)
    /\ Feed(Event("EndList", <<>>, FALSE))

StartItem ==
    /\ RoomFor(2)
    /\ Top.tag = "List"
    /\ tags' = Append(tags, [tag |-> "Item", tight |-> Top.tight])
    /\ Feed(Event("StartItem", <<>>, FALSE))

EndItem ==
    /\ pc = "events"
    /\ Top.tag = "Item"
    /\ tags' = Pop(tags)
    /\ Feed(Event("EndItem", <<>>, FALSE))

\* a task marker is the first thing in an item: right behind the start of an
\* item of a tight list, or of the first paragraph of an item of a loose one
TaskListMarker ==
    /\ RoomFor(2)
    /\ \/ Top.tag = "Item" /\ Top.tight /\ LastEvent.tag = "StartItem"
       \/ /\ Top.tag = "Paragraph"
          /\ LastEvent.tag = "StartParagraph"
          /\ Len(events) >= 2
          /\ events[Len(events) - 1].tag = "StartItem"
    /\ \E checked \in BOOLEAN : Feed(Event("TaskListMarker", <<>>, checked))
    /\ UNCHANGED tags

\* text comes in a paragraph, directly in an item of a tight list, in runs
\* of at most two events, and once in a code block
Text ==
    /\ RoomFor(1)
    /\ \/ /\ Top.tag = "Paragraph" \/ (Top.tag = "Item" /\ Top.tight)
          /\ ~(LastEvent.tag = "Text" /\ Len(events) >= 2
               /\ events[Len(events) - 1].tag = "Text")
          /\ \E t \in InlineTexts : Feed(Event("Text", t, FALSE))
       \/ /\ Top.tag = "CodeBlock"
          /\ LastEvent.tag = "StartCodeBlock"
          /\ \E t \in CodeTexts : Feed(Event("Text", t, FALSE))
    /\ UNCHANGED tags

\* the end of the event stream: state.finalize(&mut blocks). No text of the
\* model holds a "<details" region or a "[DETAILS_BLOCK_" placeholder, so
\* the final pass over the blocks replaces none of them.
Finalize ==
    /\ pc = "events"
    /\ tags = <<>>
    /\ state' = finalize(state, blocks).state
    /\ blocks' = finalize(state, blocks).blocks
    /\ pc' = "done"
    /\ UNCHANGED <<doc, idx, stack, tree, output, heading, scan, result>>
    /\ UNCHANGED <<linkVars, events, tags>>

ContentNext ==
    \/ StartParagraph \/ EndParagraph
    \/ StartCodeBlock \/ EndCodeBlock
    \/ StartList \/ EndList
    \/ StartItem \/ EndItem
    \/ TaskListMarker
    \/ Text
    \/ Finalize

SpecContent == ContentInit /\ [][ContentNext]_vars

----------------------------------------------------------------------------
(* content.rs: parse_content from end to end. extract_details_blocks cuts  *)
(* the "<details" regions out of the fragment and leaves a placeholder     *)
(* line for each, the tokenizer and process_event give the blocks of the   *)
(* rest, and the last pass puts the Details blocks in the place of the     *)
(* paragraphs that are a placeholder.                                      *)

LT == "<"
GT == ">"
DetailsOpen == <<LT, "d", "e", "t", "a", "i", "l", "s">>
DetailsClose == <<LT, "/", "d", "e", "t", "a", "i", "l", "s", GT>>
SummaryOpen == <<LT, "s", "u", "m", "m", "a", "r", "y">>
SummaryClose == <<LT, "/", "s", "u", "m", "m", "a", "r", "y", GT>>
PlaceholderPrefix ==
    <<"[", "D", "E", "T", "A", "I", "L", "S", "_", "B", "L", "O", "C", "K", "_">>

Digits == <<"0", "1", "2", "3", "4", "5", "6", "7", "8", "9">>

\* usize's Display, as format! writes the index of a placeholder
RECURSIVE to_string(_)
to_string(n) ==
    IF n < 10 THEN <<Digits[n + 1]>>
    ELSE to_string(n \div 10) \o <<Digits[(n % 10) + 1]>>

\* str::parse::<usize>: the number of a non-empty string of digits, and -1
\* for Err
RECURSIVE parse_digits(_, _)
parse_digits(s, acc) ==
    IF s = <<>> THEN acc
    ELSE IF \E d \in 1..10 : Digits[d] = Head(s)
    THEN parse_digits(Tail(s),
                      acc * 10 + (CHOOSE d \in 1..10 : Digits[d] = Head(s)) - 1)
    ELSE -1
parse_usize(s) == IF s = <<>> THEN -1 ELSE parse_digits(s, 0)

\* str::ends_with
ends_with(s, pat) ==
    Len(pat) <= Len(s) /\ SubSeq(s, Len(s) - Len(pat) + 1, Len(s)) = pat

\* format!("\n[DETAILS_BLOCK_{}]\n", index)
placeholder(index) ==
    <<NL>> \o PlaceholderPrefix \o to_string(index) \o <<"]", NL>>

\* the summary of a details body: the trimmed text between the '>' that
\* ends the first "<summary" and the next "</summary>", and the empty
\* string when one of the three is missing
details_summary(details_content) ==
    LET summary_start_pos == find(details_content, SummaryOpen)
    IN IF summary_start_pos = -1 THEN <<>>
       ELSE LET summary_tag_end ==
                    find(SliceFrom(details_content, summary_start_pos), <<GT>>)
            IN IF summary_tag_end = -1 THEN <<>>
               ELSE LET summary_content_start ==
                            summary_start_pos + summary_tag_end + 1
                        summary_end_pos ==
                            find(SliceFrom(details_content,
                                           summary_content_start),
                                 SummaryClose)
                    IN IF summary_end_pos = -1 THEN <<>>
                       ELSE trim(SubSeq(details_content,
                                        summary_content_start + 1,
                                        summary_content_start + summary_end_pos))

\* the trimmed text behind the first "</summary>" of a details body, and
\* the whole trimmed body when there is none
details_content_trimmed(details_content) ==
    LET summary_end_pos == find(details_content, SummaryClose)
    IN trim(IF summary_end_pos = -1 THEN details_content
            ELSE SliceFrom(details_content,
                           summary_end_pos + Len(SummaryClose)))

\* the search for the "</details>" that closes a region, in
\* markdown[details_start..]; a variant takes the end of the text for it
\* when there is none
details_end_or_eof(markdown, details_start) ==
    LET n == find(SliceFrom(markdown, details_start), DetailsClose)
    IN IF n = -1 THEN Len(markdown) - details_start ELSE n

find_details_end(markdown, details_start) ==
    find(SliceFrom(markdown, details_start), DetailsClose)

\* extract_details_blocks: one turn of the loop at a position of the
\* fragment, which cuts the region that opens there or copies one character
extract_details_step(markdown, current_pos, res, details_blocks) ==
    LET rest == SliceFrom(markdown, current_pos)
        tag_end == IF starts_with(rest, DetailsOpen)
                   THEN find(rest, <<GT>>) ELSE -1
        details_start == current_pos + tag_end + 1
        details_end_pos == IF tag_end = -1 THEN -1
                           ELSE find_details_end(markdown, details_start)
    IN IF details_end_pos # -1
       THEN LET details_end == details_start + details_end_pos
                details_content ==
                    SubSeq(markdown, details_start + 1, details_end)
                content_trimmed == details_content_trimmed(details_content)
                block == DetailsBlock(details_summary(details_content),
                                      content_trimmed,
                                      parse_content(content_trimmed, 0))
            IN [current_pos |-> details_end + Len(DetailsClose),
                result |-> res \o placeholder(Len(details_blocks)),
                details_blocks |-> Append(details_blocks, block)]
       ELSE [current_pos |-> current_pos + 1,
             result |-> Append(res, markdown[current_pos + 1]),
             details_blocks |-> details_blocks]

\* extract_details_blocks: at most n turns of the loop, the first half of
\* them and then, from the locals they leave, the rest
RECURSIVE extract_details_turns(_, _, _)
extract_details_turns(markdown, st, n) ==
    IF n = 0 \/ st.current_pos >= Len(markdown) THEN st
    ELSE IF n = 1
    THEN extract_details_step(markdown, st.current_pos, st.result,
                              st.details_blocks)
    ELSE CHOOSE end \in
             {extract_details_turns(markdown, half, n - (n \div 2)) :
                  half \in {extract_details_turns(markdown, st, n \div 2)}} :
             TRUE

\* extract_details_blocks: the loop. A turn moves current_pos forward, so
\* it has ended after as many turns as the fragment has characters.
extract_details_loop(markdown, current_pos, res, details_blocks) ==
    CHOOSE out \in
        {[result |-> end.result, details_blocks |-> end.details_blocks] :
             end \in {extract_details_turns(
                          markdown,
                          [current_pos |-> current_pos, result |-> res,
                           details_blocks |-> details_blocks],
                          Len(markdown))}} :
        TRUE

extract_details_blocks(markdown) ==
    extract_details_loop(markdown, 0, <<>>, <<>>)

\* the Details block a block of the main parse is replaced by: that of the
\* index a Paragraph's trimmed content names between "[DETAILS_BLOCK_" and
\* "]", when there is one
replacement(block, details_blocks) ==
    IF block.block # "Paragraph" THEN block
    ELSE LET trimmed == trim(block.content)
         IN IF starts_with(trimmed, PlaceholderPrefix)
               /\ ends_with(trimmed, <<"]">>)
            THEN LET index ==
                         parse_usize(SubSeq(trimmed, Len(PlaceholderPrefix) + 1,
                                            Len(trimmed) - 1))
                 IN IF index # -1 /\ index < Len(details_blocks)
                    THEN details_blocks[index + 1] ELSE block
            ELSE block

\* the last pass of parse_content over the blocks of the main parse
replace_placeholders(bl, details_blocks) ==
    [i \in DOMAIN bl |-> replacement(bl[i], details_blocks)]

----------------------------------------------------------------------------
(* SpecInline: parse_content's loop over the events of one paragraph, one  *)
(* heading, one item of a tight list or one table with inline content of   *)
(* every kind in it, and the final flush. The event stream is what the     *)
(* tokenizer gives for the fragment; it is chosen at the start and         *)
(* consumed one event a turn.                                              *)

\* most inline segments in the content of one container
MaxInlineSegments == 2

Tx(text) == Event("Text", text, FALSE)
Ev(tag) == Event(tag, <<>>, FALSE)

\* the events of "![a](s)" and of "![b](r 'T')"
ImageA == <<LinkEvent("StartImage", <<"s">>, <<>>), Tx(<<"a">>), Ev("EndImage")>>
ImageB == <<LinkEvent("StartImage", <<"r">>, <<"T">>), Tx(<<"b">>), Ev("EndImage")>>

\* the inline segments: plain text, inline code, the three styles, a style
\* in a style, a link, an image without and with a title, a link around one
\* image and around two, a soft break before text
InlineSegments ==
    { <<Tx(<<"x">>)>>,
      <<Event("Code", <<"c">>, FALSE)>>,
      <<Ev("StartStrong"), Tx(<<"b">>), Ev("EndStrong")>>,
      <<Ev("StartEmphasis"), Tx(<<"e">>), Ev("EndEmphasis")>>,
      <<Ev("StartStrikethrough"), Tx(<<"d">>), Ev("EndStrikethrough")>>,
      <<Ev("StartEmphasis"), Ev("StartStrong"), Tx(<<"b">>), Ev("EndStrong"),
        Ev("EndEmphasis")>>,
      <<LinkEvent("StartLink", <<"u">>, <<>>), Tx(<<"t">>), Ev("EndLink")>>,
      ImageA,
      ImageB,
      <<LinkEvent("StartLink", <<"u">>, <<>>)>> \o ImageA \o <<Ev("EndLink")>>,
      <<LinkEvent("StartLink", <<"u">>, <<>>)>> \o ImageA \o ImageB
          \o <<Ev("EndLink")>>,
      <<Ev("SoftBreak"), Tx(<<"y">>)>> }

RECURSIVE concat_events(_)
concat_events(segs) ==
    IF segs = <<>> THEN <<>> ELSE Head(segs) \o concat_events(Tail(segs))

InlineContainers == {"Paragraph", "Heading", "Item", "TableCell"}

\* the event stream of a container around inline content
InlineStream(container, content) ==
    CASE container = "Paragraph" ->
           <<Ev("StartParagraph")>> \o content \o <<Ev("EndParagraph")>>
      [] container = "Heading" ->
           <<HeadingEvent(2)>> \o content \o <<Ev("EndHeading")>>
      [] container = "Item" ->
           <<Ev("StartList"), Ev("StartItem")>> \o content
               \o <<Ev("EndItem"), Ev("EndList")>>
      [] container = "TableCell" ->
           <<TableEvent(<<"CmarkLeft">>), Ev("StartTableHead"),
             Ev("StartTableCell")>> \o content
               \o <<Ev("EndTableCell"), Ev("EndTableHead"),
                    Ev("StartTableRow"), Ev("StartTableCell"), Tx(<<"z">>),
                    Ev("EndTableCell"), Ev("EndTableRow"), Ev("EndTable")>>

\* the other variables while parse_content consumes a chosen event stream
TokensIdle ==
    /\ tags = <<>>
    /\ doc = [content |-> <<>>, headings |-> <<>>]
    /\ idx = 0
    /\ stack = <<>>
    /\ tree = <<>>
    /\ output = None
    /\ heading = None
    /\ scan = None
    /\ result = None
    /\ arg = None
    /\ links = <<>>

InlineInit ==
    /\ pc = "tokens"
    /\ state = ParserState_new(1)
    /\ blocks = <<>>
    /\ events = <<>>
    /\ \E container \in InlineContainers :
       \E n \in 1..MaxInlineSegments :
       \E segs \in [1..n -> InlineSegments] :
           tokens = InlineStream(container, concat_events(segs))
    /\ TokensIdle

\* one turn of the loop of parse_content: the next event of the tokenizer
ProcessEvent ==
    /\ pc = "tokens"
    /\ tokens # <<>>
    /\ state' = process_event(Head(tokens), state, blocks).state
    /\ blocks' = process_event(Head(tokens), state, blocks).blocks
    /\ events' = Append(events, Head(tokens))
    /\ tokens' = Tail(tokens)
    /\ UNCHANGED <<doc, pc, idx, stack, tree, output, heading, scan, result>>
    /\ UNCHANGED <<arg, links, tags>>

\* the Details blocks of the fragment that is parsed
parsed_details == IF result = None THEN <<>> ELSE result.details_blocks

\* the end of the event stream: state.finalize(&mut blocks), and the last
\* pass over the blocks
FinalizeTokens ==
    /\ pc = "tokens"
    /\ tokens = <<>>
    /\ state' = finalize(state, blocks).state
    /\ blocks' = replace_placeholders(finalize(state, blocks).blocks,
                                      parsed_details)
    /\ pc' = "done"
    /\ UNCHANGED <<doc, idx, stack, tree, output, heading, scan, result>>
    /\ UNCHANGED <<linkVars, events, tags>>

TokensNext == ProcessEvent \/ FinalizeTokens

SpecInline == InlineInit /\ [][TokensNext]_vars

----------------------------------------------------------------------------
(* SpecBlocks: parse_content's loop over the events of a fragment of a few *)
(* blocks of every kind, and the final flush. The actions are those of     *)
(* SpecInline; the event stream is that of a sequence of blocks.           *)

\* most blocks in the fragment
MaxBlocks == 2

\* the cells of a table row, each cell given by the events of its content
RECURSIVE row_cells(_)
row_cells(cells) ==
    IF cells = <<>> THEN <<>>
    ELSE <<Ev("StartTableCell")>> \o Head(cells) \o <<Ev("EndTableCell")>>
             \o row_cells(Tail(cells))

\* the events of a table of two columns with a header row and one row
TableStream(header, row) ==
    <<TableEvent(<<"CmarkLeft", "CmarkNone">>), Ev("StartTableHead")>>
        \o row_cells(header)
        \o <<Ev("EndTableHead"), Ev("StartTableRow")>>
        \o row_cells(row)
        \o <<Ev("EndTableRow"), Ev("EndTable")>>

\* the events of a block quote around the events of its content
QuoteStream(content) ==
    <<Ev("StartBlockQuote")>> \o content \o <<Ev("EndBlockQuote")>>

\* the blocks of the fragment: a paragraph, a heading, a fenced code block
\* with text and an empty one, a rule, a tight list, a block quote of one
\* line, of two lines, without text and around a code block, a table, and a
\* table with an image behind the text of a cell
BlockSegments ==
    { InlineStream("Paragraph", <<Tx(<<"x">>)>>),
      <<HeadingEvent(1), Tx(<<"h">>), Ev("EndHeading")>>,
      <<Ev("StartCodeBlock"), Tx(<<"c", NL>>), Ev("EndCodeBlock")>>,
      <<Ev("StartCodeBlock"), Ev("EndCodeBlock")>>,
      <<Ev("Rule")>>,
      InlineStream("Item", <<Tx(<<"i">>)>>),
      QuoteStream(InlineStream("Paragraph", <<Tx(<<"q">>)>>)),
      QuoteStream(InlineStream("Paragraph",
                               <<Tx(<<"q">>), Ev("SoftBreak"), Tx(<<"r">>)>>)),
      QuoteStream(<<>>),
      QuoteStream(<<Ev("StartCodeBlock"), Tx(<<"c", NL>>), Ev("EndCodeBlock")>>),
      TableStream(<<<<Tx(<<"h">>)>>, <<Tx(<<"k">>)>>>>,
                  <<<<Tx(<<"1">>)>>, <<Tx(<<"2">>)>>>>),
      TableStream(<<<<Tx(<<"h">>)>> \o ImageA, <<Tx(<<"k">>)>>>>,
                  <<<<Tx(<<"1">>)>>, <<Event("Code", <<"c">>, FALSE)>>>>) }

BlocksInit ==
    /\ pc = "tokens"
    /\ state = ParserState_new(1)
    /\ blocks = <<>>
    /\ events = <<>>
    /\ \E n \in 1..MaxBlocks :
       \E segs \in [1..n -> BlockSegments] :
           tokens = concat_events(segs)
    /\ TokensIdle

SpecBlocks == BlocksInit /\ [][TokensNext]_vars

\* The tokenizer, on fragments of plain text lines, block quote lines and
\* the tags of details regions. A blank line ends what is open; a line that
\* starts with one of the tags opens an HTML block, which runs to the next
\* blank line and whose events process_event ignores; a line that starts
\* with '>' opens or continues a block quote; any other line opens or
\* continues a paragraph, also the paragraph of an open quote. The text of
\* a line comes as one Text event, without the complete tags in it.

HtmlTagStarts ==
    {DetailsOpen, SubSeq(DetailsClose, 1, Len(DetailsClose) - 1),
     SummaryOpen, SubSeq(SummaryClose, 1, Len(SummaryClose) - 1)}

\* the line starts an HTML block: a tag name, then the end of the line, a
\* space or '>'
html_start(line) ==
    \E t \in HtmlTagStarts :
        /\ starts_with(line, t)
        /\ Len(line) = Len(t) \/ line[Len(t) + 1] \in {SP, GT}

\* the line without the complete tags in it
RECURSIVE strip_inline_html(_)
strip_inline_html(line) ==
    IF line = <<>> THEN <<>>
    ELSE IF \E t \in HtmlTagStarts : starts_with(line, Append(t, GT))
    THEN LET t == CHOOSE u \in HtmlTagStarts : starts_with(line, Append(u, GT))
         IN strip_inline_html(SliceFrom(line, Len(t) + 1))
    ELSE <<Head(line)>> \o strip_inline_html(Tail(line))

\* the events of the text of a line
line_text(line) ==
    LET text == trim(strip_inline_html(line))
    IN (IF strip_inline_html(line) # line THEN <<Ev("InlineHtml")>> ELSE <<>>)
           \o (IF text # <<>> THEN <<Tx(text)>> ELSE <<>>)

\* the text of a block quote line: the line without its marker; a variant
\* keeps the marker
quote_line_raw(line) == line

quote_line_text(line) ==
    LET t == Tail(trim_start(line))
    IN IF t # <<>> /\ Head(t) = SP THEN Tail(t) ELSE t

\* the events that close what is open
close_open(mode) ==
    CASE mode = "para" -> <<Ev("EndParagraph")>>
      [] mode = "quote" -> <<Ev("EndParagraph"), Ev("EndBlockQuote")>>
      [] OTHER -> <<>>

\* the events of one line and what is open behind it
line_events(raw, mode) ==
    LET line == trim_start(raw)
    IN IF line = <<>>
       THEN [events |-> close_open(mode), mode |-> "none"]
       ELSE IF mode = "html"
       THEN [events |-> <<Ev("Html")>>, mode |-> "html"]
       ELSE IF html_start(line)
       THEN [events |-> close_open(mode) \o <<Ev("Html")>>, mode |-> "html"]
       ELSE IF Head(line) = GT
       THEN [events |->
                 (IF mode = "quote" THEN <<Ev("SoftBreak")>>
                  ELSE close_open(mode)
                           \o <<Ev("StartBlockQuote"), Ev("StartParagraph")>>)
                     \o line_text(quote_line_text(line)),
             mode |-> "quote"]
       ELSE [events |->
                 (IF mode = "none" THEN <<Ev("StartParagraph")>>
                  ELSE <<Ev("SoftBreak")>>)
                     \o line_text(line),
             mode |-> IF mode = "none" THEN "para" ELSE mode]

RECURSIVE tokenize_lines(_, _)
tokenize_lines(ls, mode) ==
    IF ls = <<>> THEN close_open(mode)
    ELSE LET n == line_events(Head(ls), mode)
         IN n.events \o tokenize_lines(Tail(ls), n.mode)

\* Parser::new_ext(&processed_markdown, options)
tokenize_markdown(markdown) == tokenize_lines(lines(markdown), "none")

----------------------------------------------------------------------------
(* SpecParse: parse_content on a fragment of a few pieces of text, of      *)
(* block quote lines and of details regions, complete and not.             *)

\* most pieces in the fragment
MaxPieces == 3

\* the pieces: text, a line ending, a region without and with a summary, a
\* region whose summary does not end, an opening tag without '>', an opening
\* tag, a closing tag, a block quote marker with text, and the text of a
\* placeholder
ParsePieces ==
    { <<"x">>,
      <<NL>>,
      DetailsOpen \o <<GT, "y">> \o DetailsClose,
      DetailsOpen \o <<GT>> \o SummaryOpen \o <<GT, SP, "s", SP>>
          \o SummaryClose \o <<SP, "y", NL>> \o DetailsClose,
      DetailsOpen \o <<GT>> \o SummaryOpen \o <<GT, "s">> \o DetailsClose,
      DetailsOpen,
      Append(DetailsOpen, GT),
      DetailsClose,
      <<GT, "q">>,
      PlaceholderPrefix \o <<"0", "]">> }

ParseInit ==
    /\ pc = "parse"
    /\ \E n \in 0..MaxPieces :
       \E pieces \in [1..n -> ParsePieces] :
           arg = concat_events(pieces)
    /\ state = ParserState_new(1)
    /\ blocks = <<>>
    /\ events = <<>>
    /\ tokens = <<>>
    /\ tags = <<>>
    /\ doc = [content |-> <<>>, headings |-> <<>>]
    /\ idx = 0
    /\ stack = <<>>
    /\ tree = <<>>
    /\ output = None
    /\ heading = None
    /\ scan = None
    /\ result = None
    /\ links = <<>>

\* extract_details_blocks(markdown) and Parser::new_ext on what it returns
ExtractDetails ==
    /\ pc = "parse"
    /\ result' = extract_details_blocks(arg)
    /\ tokens' = tokenize_markdown(extract_details_blocks(arg).result)
    /\ pc' = "tokens"
    /\ UNCHANGED <<doc, idx, stack, tree, output, heading, scan>>
    /\ UNCHANGED <<arg, links, contentVars>>

ParseNext == ExtractDetails \/ ProcessEvent \/ FinalizeTokens

SpecParse == ParseInit /\ [][ParseNext]_vars

----------------------------------------------------------------------------
(* SpecContentCall: one call of parse_content, whole, on fragments of a    *)
(* few pieces and on one long block quote line with so many regions that   *)
(* the placeholders of the last ones have four digits.                     *)

\* most pieces in the fragment
MaxCallPieces == 2

\* the number of regions in the long block quote line
QuoteRegions == 1111

\* a block quote line of text and many regions without a body, one
\* character of text behind each
LongQuoteLine ==
    LET region == DetailsOpen \o <<GT>> \o DetailsClose \o <<"x">>
    IN <<GT, "x">>
           \o [i \in 1..(Len(region) * QuoteRegions) |->
                  region[((i - 1) % Len(region)) + 1]]

\* the loop of parse_content over the events of one line of the tokenizer
RECURSIVE process_events(_, _, _)
process_events(evs, s, bl) ==
    IF evs = <<>> THEN After(s, bl)
    ELSE CHOOSE out \in
             {process_events(Tail(evs), n.state, n.blocks) :
                  n \in {process_event(Head(evs), s, bl)}} :
             TRUE

\* the loop of parse_content over the events of the next line of the
\* tokenizer's text
parse_line(st) ==
    LET end == find(st.rest, <<NL>>)
        line == IF end = -1 THEN st.rest ELSE SliceTo(st.rest, end)
        le == line_events(line, st.mode)
        after == process_events(le.events, st.state, st.blocks)
    IN [rest |-> IF end = -1 THEN <<>> ELSE SliceFrom(st.rest, end + 1),
        mode |-> le.mode, state |-> after.state, blocks |-> after.blocks]

\* the same over at most n lines, the first half of them and then the rest
RECURSIVE parse_lines(_, _)
parse_lines(st, n) ==
    IF n = 0 \/ st.rest = <<>> THEN st
    ELSE IF n = 1 THEN parse_line(st)
    ELSE CHOOSE end \in
             {parse_lines(half, n - (n \div 2)) :
                  half \in {parse_lines(st, n \div 2)}} :
             TRUE

\* the loop of parse_content over all events of the tokenizer: those of
\* the lines, no more of them than the text has characters, then the
\* events that close what is open
parse_events(text, s, bl) ==
    CHOOSE out \in
        {process_events(close_open(end.mode), end.state, end.blocks) :
             end \in {parse_lines([rest |-> text, mode |-> "none",
                                   state |-> s, blocks |-> bl],
                                  Len(text))}} :
        TRUE

\* parse_content, whole; the fields are what extract_details_blocks
\* returned, the parser state and the blocks at the return
parse_content_call(markdown, start_line) ==
    CHOOSE out \in
        {[extracted |-> ext,
          state |-> final.state,
          blocks |-> replace_placeholders(final.blocks, ext.details_blocks)] :
             <<ext, final>> \in
                 {<<e, finalize(after.state, after.blocks)>> :
                      <<e, after>> \in
                          {<<x, parse_events(x.result,
                                             ParserState_new(start_line),
                                             <<>>)>> :
                               x \in {extract_details_blocks(markdown)}}}} :
        TRUE

CallInit ==
    /\ pc = "call"
    /\ \/ \E n \in 0..MaxCallPieces :
          \E pieces \in [1..n -> ParsePieces] :
              arg = concat_events(pieces)
       \/ arg = LongQuoteLine
    /\ state = ParserState_new(1)
    /\ blocks = <<>>
    /\ events = <<>>
    /\ tokens = <<>>
    /\ tags = <<>>
    /\ doc = [content |-> <<>>, headings |-> <<>>]
    /\ idx = 0
    /\ stack = <<>>
    /\ tree = <<>>
    /\ output = None
    /\ heading = None
    /\ scan = None
    /\ result = None
    /\ links = <<>>

\* parse_content(arg, 1)
ParseContent ==
    /\ pc = "call"
    /\ \E call \in {parse_content_call(arg, 1)} :
           /\ result' = call.extracted
           /\ state' = call.state
           /\ blocks' = call.blocks
    /\ pc' = "done"
    /\ UNCHANGED <<doc, idx, stack, tree, output, heading, scan>>
    /\ UNCHANGED <<linkVars, tags, events>>

CallNext == ParseContent

SpecContentCall == CallInit /\ [][CallNext]_vars

----------------------------------------------------------------------------
(* SpecMarkdown: parse_markdown, the loop over the events of the tokenizer *)
(* that collects the headings of a document. The document is a few pieces, *)
(* each a source text and the events the tokenizer gives for it.           *)

\* most pieces in the document
MaxMarkdownPieces == 2

MarkdownPiece(src, evs) == [src |-> src, events |-> evs]

\* headings of several levels and with every kind of inline run, a heading
\* without text, and paragraphs
MarkdownPieces ==
    { MarkdownPiece(<<HASH, SP, "h", NL>>,
                    <<HeadingEvent(1), Tx(<<"h">>), Ev("EndHeading")>>),
      MarkdownPiece(<<HASH, HASH, SP, "*", "e", "*", SP, "x", NL>>,
                    <<HeadingEvent(2), Ev("StartEmphasis"), Tx(<<"e">>),
                      Ev("EndEmphasis"), Tx(<<SP, "x">>), Ev("EndHeading")>>),
      MarkdownPiece(<<HASH, HASH, HASH, SP, "*", "*", "b", "*", "*", NL>>,
                    <<HeadingEvent(3), Ev("StartStrong"), Tx(<<"b">>),
                      Ev("EndStrong"), Ev("EndHeading")>>),
      MarkdownPiece(<<HASH, HASH, SP, TICK, "c", TICK, SP, "x", NL>>,
                    <<HeadingEvent(2), Event("Code", <<"c">>, FALSE),
                      Tx(<<SP, "x">>), Ev("EndHeading")>>),
      MarkdownPiece(<<HASH, SP, TICK, "c", TICK, NL>>,
                    <<HeadingEvent(1), Event("Code", <<"c">>, FALSE),
                      Ev("EndHeading")>>),
      MarkdownPiece(<<HASH, HASH, HASH, HASH, HASH, HASH, SP, "s", NL>>,
                    <<HeadingEvent(6), Tx(<<"s">>), Ev("EndHeading")>>),
      MarkdownPiece(<<HASH, NL>>,
                    <<HeadingEvent(1), Ev("EndHeading")>>),
      MarkdownPiece(<<"p", NL, NL>>,
                    <<Ev("StartParagraph"), Tx(<<"p">>), Ev("EndParagraph")>>),
      MarkdownPiece(<<TICK, "k", TICK, SP, "*", "m", "*", NL, NL>>,
                    <<Ev("StartParagraph"), Event("Code", <<"k">>, FALSE),
                      Tx(<<SP>>), Ev("StartEmphasis"), Tx(<<"m">>),
                      Ev("EndEmphasis"), Ev("EndParagraph")>>) }

\* the source text and the events of a sequence of pieces
RECURSIVE pieces_src(_)
pieces_src(pieces) ==
    IF pieces = <<>> THEN <<>>
    ELSE Head(pieces).src \o pieces_src(Tail(pieces))
RECURSIVE pieces_events(_)
pieces_events(pieces) ==
    IF pieces = <<>> THEN <<>>
    ELSE Head(pieces).events \o pieces_events(Tail(pieces))

\* parse_markdown: the locals before the loop
markdown_start ==
    [headings |-> <<>>, current_heading |-> None, in_heading |-> FALSE]

\* parse_markdown: the match on the event
markdown_event(ev, st) ==
    CASE ev.tag = "StartHeading" ->
           [st EXCEPT !.in_heading = TRUE,
                      !.current_heading =
                          Some([level |-> ev.level, text |-> <<>>])]
      [] ev.tag = "EndHeading" ->
           [st EXCEPT
               !.headings =
                   IF st.current_heading = None THEN @
                   ELSE Append(@, Heading(st.current_heading.some.level,
                                          trim(st.current_heading.some.text))),
               !.current_heading = None,
               !.in_heading = FALSE]
      [] ev.tag = "Text" /\ st.in_heading ->
           IF st.current_heading = None THEN st
           ELSE [st EXCEPT !.current_heading =
                               Some([level |-> @.some.level,
                                     text |-> @.some.text \o ev.text])]
      [] OTHER -> st

MarkdownInit ==
    /\ pc = "markdown"
    /\ \E n \in 0..MaxMarkdownPieces :
           \E pieces \in [1..n -> MarkdownPieces] :
               /\ arg = pieces_src(pieces)
               /\ tokens = pieces_events(pieces)
    /\ scan = markdown_start
    /\ doc = [content |-> <<>>, headings |-> <<>>]
    /\ events = <<>>
    /\ state = None
    /\ blocks = <<>>
    /\ tags = <<>>
    /\ idx = 0
    /\ stack = <<>>
    /\ tree = <<>>
    /\ output = None
    /\ heading = None
    /\ result = None
    /\ links = <<>>

\* one turn of the loop: for event in parser
MarkdownEvent ==
    /\ pc = "markdown"
    /\ tokens # <<>>
    /\ scan' = markdown_event(Head(tokens), scan)
    /\ tokens' = Tail(tokens)
    /\ events' = Append(events, Head(tokens))
    /\ UNCHANGED <<doc, pc, idx, stack, tree, output, heading, result>>
    /\ UNCHANGED <<arg, links, state, blocks, tags>>

\* Document::new(content.to_string(), headings)
MarkdownReturn ==
    /\ pc = "markdown"
    /\ tokens = <<>>
    /\ doc' = [content |-> arg, headings |-> scan.headings]
    /\ pc' = "done"
    /\ UNCHANGED <<idx, stack, tree, output, heading, scan, result>>
    /\ UNCHANGED <<linkVars, contentVars>>

MarkdownNext == MarkdownEvent \/ MarkdownReturn

SpecMarkdown == MarkdownInit /\ [][MarkdownNext]_vars

----------------------------------------------------------------------------
(* SpecLines: parse_content's loop with a starting line that is chosen, on *)
(* event streams with code blocks at top level, in a list item and in a    *)
(* block quote.                                                            *)

\* the largest starting line
MaxStartLine == 2

\* most segments in the event stream
MaxLineSegments == 3

CodeStream(text) ==
    <<Ev("StartCodeBlock")>>
        \o (IF text = <<>> THEN <<>> ELSE <<Tx(text)>>)
        \o <<Ev("EndCodeBlock")>>

\* a paragraph, a code block with and without content, a list item with a
\* code block alone and behind text, a block quote of text and a block
\* quote around a code block
LineSegments ==
    { InlineStream("Paragraph", <<Tx(<<"x">>)>>),
      CodeStream(<<"c", NL>>),
      CodeStream(<<>>),
      InlineStream("Item", CodeStream(<<"d", NL>>)),
      InlineStream("Item", <<Tx(<<"i">>)>> \o CodeStream(<<"d", NL>>)),
      QuoteStream(InlineStream("Paragraph", <<Tx(<<"q">>)>>)),
      QuoteStream(CodeStream(<<"c", NL>>)) }

\* parse_content(markdown, start_line) behind ParserState::new(start_line);
\* arg is start_line
LinesInit ==
    /\ pc = "tokens"
    /\ arg \in 0..MaxStartLine
    /\ state = ParserState_new(arg)
    /\ blocks = <<>>
    /\ events = <<>>
    /\ \E n \in 1..MaxLineSegments :
       \E segs \in [1..n -> LineSegments] :
           tokens = concat_events(segs)
    /\ tags = <<>>
    /\ doc = [content |-> <<>>, headings |-> <<>>]
    /\ idx = 0
    /\ stack = <<>>
    /\ tree = <<>>
    /\ output = None
    /\ heading = None
    /\ scan = None
    /\ result = None
    /\ links = <<>>

SpecLines == LinesInit /\ [][TokensNext]_vars

----------------------------------------------------------------------------
(* SpecWatcher: tui/watcher.rs, the FileWatcher behind live reload.  state *)
(* is the FileWatcher (current_path, last_reload and the files registered  *)
(* with the underlying watcher), events the channel from the watcher's     *)
(* thread to the receiver, idx the clock in milliseconds, pc the position  *)
(* of the thread that owns the FileWatcher, result its last call's return  *)
(* value and scan the locals of check_for_changes at its return.           *)

\* Duration::from_millis(100)
debounce_duration == 100

\* the latest instant of the clock, in milliseconds
MaxClock == 200

\* most messages waiting in the channel
MaxPending == 2

\* Instant::now()
now == idx

\* a PathBuf: parent() and file_name()
Path(parent, file_name) == [parent |-> parent, file_name |-> file_name]

\* the files the interface opens
WatchPaths == {Path("docs", "a.md"), Path("docs", "b.md")}

\* Path::canonicalize on a directory: "docs/." is "docs"
canonical_dir(parent) == IF parent = "docs/." THEN "docs" ELSE parent

\* Path::canonicalize on a file
canonicalize(path) == Path(canonical_dir(path.parent), path.file_name)

\* the spellings under which the watcher's thread reports a file
Spellings(path) == {Path(d, path.file_name) : d \in {"docs", "docs/."}}

\* the event kinds that is_relevant_event accepts
RelevantKinds ==
    {"Modify(Data)", "Modify(Any)", "Access(Close(Write))", "Create",
     "Modify(Name(To))", "Modify(Name(Any))"}

\* the kinds of the events sent: a write, a creation, the rename of an
\* atomic save, and a removal
EventKinds == {"Modify(Data)", "Create", "Modify(Name(To))", "Remove"}

\* Ok(event) and Err(error) as sent through the channel
OkEvent(kind, paths) == [ok |-> TRUE, kind |-> kind, paths |-> paths]

ErrEvent == [ok |-> FALSE, kind |-> "", paths |-> <<>>]

\* the closure of is_relevant_event: the three matching strategies
path_matches(event_path, watched_path) ==
    \/ event_path = watched_path
    \/ canonicalize(event_path) = canonicalize(watched_path)
    \/ /\ event_path.file_name = watched_path.file_name
       /\ canonical_dir(event_path.parent) = canonical_dir(watched_path.parent)

\* FileWatcher::is_relevant_event
is_relevant_event(self, event) ==
    IF self.current_path = None
    THEN FALSE
    ELSE LET watched_path == self.current_path.some
             matches_path ==
                 \E i \in DOMAIN event.paths :
                     path_matches(event.paths[i], watched_path)
         IN  IF ~matches_path THEN FALSE ELSE event.kind \in RelevantKinds

\* a variant of the loop's arm that keeps the last event's answer only
recv_last(self, should_reload, message) ==
    IF message.ok THEN is_relevant_event(self, message) ELSE should_reload

\* one turn of the loop of check_for_changes on a received message
recv(self, should_reload, message) ==
    IF message.ok
    THEN (IF is_relevant_event(self, message) THEN TRUE ELSE should_reload)
    ELSE should_reload

\* the loop of check_for_changes: try_recv until the channel is empty
RECURSIVE drain(_, _, _)
drain(self, should_reload, pending) ==
    IF pending = <<>>
    THEN should_reload
    ELSE drain(self, recv(self, should_reload, Head(pending)), Tail(pending))

\* RecommendedWatcher::unwatch, its error ignored by the callers
watcher_unwatch(registered, path) == registered \ {path}

\* the last call of the owning thread and what it returned
CallReturned(call, value) == [call |-> call, returned |-> value]

\* FileWatcher::new
WatcherInit ==
    /\ pc = "idle"
    /\ state = [current_path |-> None, last_reload |-> 0, watcher |-> {}]
    /\ events = <<>>
    /\ idx = 0
    /\ result = CallReturned("new", "Ok")
    /\ scan = None
    /\ tokens = <<>>
    /\ blocks = <<>>
    /\ tags = <<>>
    /\ doc = [content |-> <<>>, headings |-> <<>>]
    /\ stack = <<>>
    /\ tree = <<>>
    /\ output = None
    /\ heading = None
    /\ arg = None
    /\ links = <<>>

WatcherIdle ==
    UNCHANGED <<tokens, blocks, tags, doc, stack, tree, output, heading,
                arg, links>>

\* time passes
Tick ==
    /\ \E d \in {debounce_duration \div 2, debounce_duration} :
           /\ now + d <= MaxClock
           /\ idx' = now + d
    /\ UNCHANGED <<pc, state, events, result, scan>>
    /\ WatcherIdle

\* the watcher's thread sends an event about a registered file, or an error
Notify ==
    /\ Len(events) < MaxPending
    /\ \/ \E path \in state.watcher, kind \in EventKinds :
          \E spelled \in Spellings(path) :
              events' = Append(events, OkEvent(kind, <<spelled>>))
       \/ events' = Append(events, ErrEvent)
    /\ UNCHANGED <<pc, state, idx, result, scan>>
    /\ WatcherIdle

\* FileWatcher::watch; the underlying watch succeeds or fails
watch ==
    /\ pc = "idle"
    /\ \E path \in WatchPaths, watched \in BOOLEAN :
       LET unwatched ==
               IF state.current_path = None
               THEN state.watcher
               ELSE watcher_unwatch(state.watcher, state.current_path.some)
       IN  IF watched
           THEN /\ state' = [current_path |-> Some(path),
                             last_reload |-> now,
                             watcher |-> unwatched \cup {path}]
                /\ result' = CallReturned("watch", "Ok")
           ELSE /\ state' = [state EXCEPT !.watcher = unwatched]
                /\ result' = CallReturned("watch", "Err")
    /\ UNCHANGED <<pc, events, idx, scan>>
    /\ WatcherIdle

\* FileWatcher::unwatch
unwatch ==
    /\ pc = "idle"
    /\ state' = [state EXCEPT
                    !.current_path = None,
                    !.watcher = IF state.current_path = None
                                THEN @
                                ELSE watcher_unwatch(@, state.current_path.some)]
    /\ UNCHANGED <<pc, events, idx, result, scan>>
    /\ WatcherIdle

\* the entry of check_for_changes
CallCheckForChanges ==
    /\ pc = "idle"
    /\ pc' = "check_for_changes"
    /\ UNCHANGED <<state, events, idx, result, scan>>
    /\ WatcherIdle

\* FileWatcher::check_for_changes: the loop, the debouncing and the return
check_for_changes ==
    /\ pc = "check_for_changes"
    /\ \E should_reload \in {drain(state, FALSE, events)} :
       LET reload == should_reload /\ now - state.last_reload >= debounce_duration
       IN  /\ state' = [state EXCEPT !.last_reload = IF reload THEN now ELSE @]
           /\ result' = CallReturned("check_for_changes", reload)
           /\ scan' = [should_reload |-> should_reload]
    /\ events' = <<>>
    /\ pc' = "idle"
    /\ UNCHANGED idx
    /\ WatcherIdle

WatcherNext ==
    \/ Tick
    \/ Notify
    \/ watch
    \/ unwatch
    \/ CallCheckForChanges
    \/ check_for_changes

SpecWatcher == WatcherInit /\ [][WatcherNext]_vars

----------------------------------------------------------------------------
(* SpecTheme: tui/theme.rs, rgb_to_256 as with_color_mode_custom applies   *)
(* it to a colour of a custom theme.  arg is the colour, result what the   *)
(* call gives.                                                             *)

\* Color::Rgb, Color::Indexed and a named colour
Rgb(r, g, b) == [kind |-> "Rgb", r |-> r, g |-> g, b |-> b, index |-> 0, name |-> ""]

Indexed(index) == [kind |-> "Indexed", r |-> 0, g |-> 0, b |-> 0, index |-> index, name |-> ""]

Named(name) == [kind |-> "Named", r |-> 0, g |-> 0, b |-> 0, index |-> 0, name |-> name]

\* the panic of an arithmetic overflow in a build with overflow checks
OverflowPanic == [kind |-> "Panic", r |-> 0, g |-> 0, b |-> 0, index |-> 0, name |-> "attempt to add with overflow"]

\* the channel values of the colours that are not gray
ChannelValues == {0, 7, 8, 25, 26, 76, 77, 128, 178, 179, 242, 243, 247, 248, 255}

\* every gray, the colours over ChannelValues, and colours that are not RGB
ThemeColors ==
    {Rgb(v, v, v) : v \in 0..255}
        \cup {Rgb(c[1], c[2], c[3]) : c \in ChannelValues \X ChannelValues \X ChannelValues}
        \cup {Indexed(0), Indexed(16), Indexed(255), Named("Reset"), Named("Red")}

\* (x as f32 / d).round() as u8 for x, d >= 0: halves round away from zero
round_div(x, d) == (2 * x + d) \div (2 * d)

\* the results of an addition or multiplication of u8 values whose exact
\* value is n: n itself, or on overflow a panic (with overflow checks) or
\* the value wrapped to eight bits (without)
u8_results(n) == IF n > 255 THEN {[panic |-> TRUE, value |-> 0], [panic |-> FALSE, value |-> n % 256]}
                 ELSE {[panic |-> FALSE, value |-> n]}

\* 232 + gray_index
gray_sum(gray_index) == u8_results(232 + gray_index)

\* 16 + 36 * r_index + 6 * g_index + b_index, operation by operation
cube_sum(r_index, g_index, b_index) ==
    LET then(rs, f(_)) ==
            UNION {IF x.panic THEN {x} ELSE f(x.value) : x \in rs}
        red == then(u8_results(36 * r_index), LAMBDA v : u8_results(16 + v))
        green == u8_results(6 * g_index)
        both == then(red, LAMBDA v : then(green, LAMBDA w : u8_results(v + w)))
    IN  then(both, LAMBDA v : u8_results(v + b_index))

IndexedOrPanic(rs) == {IF x.panic THEN OverflowPanic ELSE Indexed(x.value) : x \in rs}

\* rgb_to_256: what a call can give
rgb_to_256(color) ==
    IF color.kind = "Rgb"
    THEN LET r == color.r
             g == color.g
             b == color.b
         IN  IF r = g /\ g = b
             THEN IF r < 8 THEN {Indexed(16)}
                  ELSE IF r > 247 THEN {Indexed(231)}
                  ELSE IndexedOrPanic(gray_sum(round_div(r - 8, 10)))
             ELSE IndexedOrPanic(cube_sum(round_div(r, 51), round_div(g, 51),
                                          round_div(b, 51)))
    ELSE {color}

ThemeInit ==
    /\ pc = "color"
    /\ arg \in ThemeColors
    /\ result = None
    /\ state = None
    /\ events = <<>>
    /\ idx = 0
    /\ scan = None
    /\ tokens = <<>>
    /\ blocks = <<>>
    /\ tags = <<>>
    /\ doc = [content |-> <<>>, headings |-> <<>>]
    /\ stack = <<>>
    /\ tree = <<>>
    /\ output = None
    /\ heading = None
    /\ links = <<>>

\* with_color_mode_custom(ColorMode::Indexed256) on one colour of the theme
RgbTo256 ==
    /\ pc = "color"
    /\ result' \in rgb_to_256(arg)
    /\ pc' = "done"
    /\ UNCHANGED <<doc, idx, stack, tree, output, heading, scan, arg, tokens,
                   links, state, blocks, events, tags>>

ThemeNext == RgbTo256

SpecTheme == ThemeInit /\ [][ThemeNext]_vars

----------------------------------------------------------------------------
(* Properties of build_tree, checked under SpecTree.                       *)

\* the headings folded so far
Folded == SubSeq(doc.headings, 1, idx)

\* the parent of every node of the forest built so far, by pre-order position
TreeParents == ParentOf(tree, 0, 0)

\* C1: in the forest produced by build_tree every child node has a level
\* strictly greater than its parent's level, hence every descendant is
\* strictly deeper than each of its ancestors.
C1_ChildStrictlyDeeper ==
    /\ ChildrenDeeper(tree)
    /\ LET flat == Flatten(tree) IN
       \A i \in 1..Len(flat) : \A a \in Ancestors(TreeParents, i) :
           flat[a].level < flat[i].level

\* a finished forest with a grandchild: three levels of nesting
C1_Witness ==
    /\ pc = "built"
    /\ \E i \in 1..Len(TreeParents) :
           TreeParents[i] # 0 /\ TreeParents[TreeParents[i]] # 0

\* C2: the pre-order flattening of the forest produced by build_tree equals
\* the input sequence exactly: no heading is lost, duplicated or reordered.
C2_PreorderIsInput ==
    /\ Flatten(tree) = Folded
    /\ pc = "built" => Flatten(tree) = doc.headings

\* a finished forest of four headings that has a root with two children and a
\* second root, over headings that differ in title
C2_Witness ==
    /\ pc = "built"
    /\ Len(doc.headings) = 4
    /\ Len(tree) = 2
    /\ Len(tree[1].children) = 2
    /\ \E i, j \in 1..4 : doc.headings[i].text # doc.headings[j].text

\* C3: the parent of each heading is the nearest preceding heading in the flat
\* sequence whose level is strictly smaller, and a heading is a root exactly
\* when no preceding heading has a strictly smaller level.
C3_ParentIsNearestShallower ==
    /\ Len(TreeParents) = idx
    /\ \A i \in 1..idx :
           /\ TreeParents[i] = NearestShallower(Folded, i)
           /\ (TreeParents[i] = 0) <=>
                  ~ \E j \in 1..(i - 1) : Folded[j].level < Folded[i].level

\* a finished forest where a heading's parent is not the heading right before
\* it: the stack was popped past a sibling subtree
C3_Witness ==
    /\ pc = "built"
    /\ \E i \in 1..Len(TreeParents) :
           TreeParents[i] # 0 /\ TreeParents[i] < i - 1

\* C4: headings of equal level are always siblings and never nested: no
\* heading is an ancestor of a heading of the same level, and two headings of
\* equal level with no strictly shallower heading between them have the same
\* parent (or are both roots).
C4_EqualLevelsAreSiblings ==
    LET flat == Flatten(tree) IN
    /\ Len(flat) = idx
    /\ \A i \in 1..idx : \A a \in Ancestors(TreeParents, i) :
           flat[a].level # flat[i].level
    /\ \A i, j \in 1..idx :
           ( /\ i < j
             /\ Folded[i].level = Folded[j].level
             /\ \A k \in (i + 1)..(j - 1) : Folded[k].level >= Folded[i].level )
           => TreeParents[i] = TreeParents[j]

\* a finished forest with two headings of equal level, separated only by a
\* deeper heading, that share a parent which is not the root list
C4_Witness ==
    /\ pc = "built"
    /\ \E i \in 1..(Len(doc.headings) - 2) :
           /\ doc.headings[i].level = doc.headings[i + 2].level
           /\ doc.headings[i + 1].level > doc.headings[i].level
           /\ TreeParents[i] # 0
           /\ TreeParents[i + 2] = TreeParents[i]

----------------------------------------------------------------------------
(* Section boundaries stated over the positions of the full source          *)
(* (1-based indices), used to state properties.                            *)

\* the 1-based index of the first occurrence of pat in s, 0 when there is none
FirstOccurrence(s, pat) ==
    LET S == {i \in 1..(Len(s) - Len(pat) + 1) :
                 SubSeq(s, i, i + Len(pat) - 1) = pat}
    IN IF S = {} THEN 0 ELSE Min(S)

\* the index of the first line feed at or after p, Len(s) + 1 when there is none
NextLineFeed(s, p) ==
    LET S == {i \in p..Len(s) : s[i] = NL} IN IF S = {} THEN Len(s) + 1 ELSE Min(S)

\* the text of the line that starts at p, without its line ending
LineText(s, p) ==
    LET e == NextLineFeed(s, p)
        last == IF e <= Len(s) /\ e > p /\ s[e - 1] = CR THEN e - 2 ELSE e - 1
    IN SubSeq(s, p, last)

\* the indices at which the lines of s start, from index `from` on
LineStarts(s, from) ==
    {p \in from..Len(s) : p = from \/ s[p - 1] = NL}

\* the characters of a line after its leading whitespace
Unindented(line) ==
    LET S == {i \in 1..Len(line) : ~is_whitespace(line[i])}
    IN IF S = {} THEN <<>> ELSE SubSeq(line, Min(S), Len(line))

\* the level of a heading line: the length n >= 1 of the run of '#' that
\* starts the unindented line and is directly followed by whitespace; 0 if
\* the line is no heading
HeadingLevelOf(line) ==
    LET u == Unindented(line)
        S == {n \in 1..Len(u) :
                 /\ \A k \in 1..n : u[k] = HASH
                 /\ n < Len(u) /\ is_whitespace(u[n + 1])}
    IN IF S = {} THEN 0 ELSE Min(S)

IsFence(line) ==
    LET u == Unindented(line)
    IN Len(u) >= 3 /\ u[1] = TICK /\ u[2] = TICK /\ u[3] = TICK

\* the line that starts at p lies outside fenced code, the fences counted from
\* the start of the section at index `from`
OutsideFence(s, from, p) ==
    Cardinality({q \in LineStarts(s, from) : q <= p /\ IsFence(LineText(s, q))}) % 2 = 0

\* the index of the first content character of the section whose marker starts
\* at index o: the line after the marker's line
ContentStart(s, o) == NextLineFeed(s, o) + 1

\* the index of the first line of the section that ends it, Len(s) + 1 when
\* the section runs to the end of the source
SectionEnd(s, from, level) ==
    LET S == {p \in LineStarts(s, from) :
                 /\ HeadingLevelOf(LineText(s, p)) \in 1..level
                 /\ OutsideFence(s, from, p)}
    IN IF S = {} THEN Len(s) + 1 ELSE Min(S)

\* the raw content the section of heading h should have in source s
ExpectedRaw(s, h) ==
    LET o == FirstOccurrence(s, marker(h))
        from == ContentStart(s, o)
    IN trim(SubSeq(s, from, SectionEnd(s, from, h.level) - 1))

Found == FirstOccurrence(doc.content, marker(heading)) # 0

\* the source uses "\r\n" line endings
HasCR == \E i \in 1..Len(doc.content) : doc.content[i] = CR

----------------------------------------------------------------------------
(* Properties of extract_section_content, checked under SpecSection.       *)

\* C5: for a heading whose marker string is found in the source, the raw
\* content is the trimmed text from the line after the heading's line up to
\* the first later line, outside fenced code, that is a heading of level less
\* than or equal to the heading's level, or up to the end of the source.
C5_RawIsSectionText ==
    (pc = "done" /\ Found) => result.raw = ExpectedRaw(doc.content, heading)

\* the k-th smallest element of a set of numbers
KthSmallest(S, k) == CHOOSE x \in S : Cardinality({y \in S : y <= x}) = k

\* the index of the first character of the text find_next_heading scanned
ScanFrom == result.offset + 1

ScanStarts == LineStarts(doc.content, ScanFrom)

ScanFences == {q \in ScanStarts : IsFence(LineText(doc.content, q))}

\* the index at which the line find_next_heading returned at starts
BoundaryStart == KthSmallest(ScanStarts, scan.boundary)

\* the line starting at q lies between an opening fence and its closing fence
\* (or after a fence that is never closed)
InsideFence(q) ==
    /\ q \notin ScanFences
    /\ Cardinality({f \in ScanFences : f < q}) % 2 = 1

\* C6: a line between an opening fence line and its closing fence line is
\* never chosen as the section boundary, even if it starts with '#', and the
\* fence lines themselves are never boundaries; if a fence is opened and never
\* closed, no later line is a boundary and the section runs to the end of the
\* input.
C6_FencedLineNeverBoundary ==
    (pc = "done" /\ Found) =>
        /\ scan.boundary # 0 =>
               /\ scan.boundary <= Cardinality(ScanStarts)
               /\ BoundaryStart \notin ScanFences
               /\ ~InsideFence(BoundaryStart)
        /\ Cardinality(ScanFences) % 2 = 1 =>
               /\ scan.boundary # 0 => BoundaryStart < Max(ScanFences)
               /\ scan.boundary = 0 =>
                      /\ scan.pos = Len(doc.content) - result.offset
                      /\ result.raw = trim(SliceFrom(doc.content, result.offset))

\* a section with a closed fence that holds a heading line of a level that
\* would end the section, and whose boundary is found after the fence
C6_Witness ==
    /\ pc = "done"
    /\ Found
    /\ scan.boundary # 0
    /\ \E q \in ScanStarts :
           /\ q < BoundaryStart
           /\ InsideFence(q)
           /\ HeadingLevelOf(LineText(doc.content, q)) \in 1..heading.level

----------------------------------------------------------------------------
(* Properties of build_json_output, checked under Spec.                    *)

\* every Section of a Section forest, in pre-order
RECURSIVE AllSections(_)
AllSections(secs) ==
    IF secs = <<>> THEN <<>>
    ELSE <<Head(secs)>> \o AllSections(Head(secs).children)
             \o AllSections(Tail(secs))

Sections == output.document.sections

NotInSource(h) == FirstOccurrence(doc.content, marker(h)) = 0

\* the Sections of headings whose marker is not in the source are empty, and
\* every Section has one child Section per child node
RECURSIVE EmptyWhenNotFound(_, _)
EmptyWhenNotFound(nodes, secs) ==
    /\ Len(secs) = Len(nodes)
    /\ \A i \in 1..Len(nodes) :
           /\ NotInSource(nodes[i].heading) =>
                  /\ secs[i].content.raw = <<>>
                  /\ secs[i].content.blocks = <<>>
                  /\ secs[i].position = [line |-> 0, offset |-> 0]
           /\ EmptyWhenNotFound(nodes[i].children, secs[i].children)

\* C7: when the marker string does not occur anywhere in the full source, the
\* section is the empty string with offset 0 and line 0, the Section has empty
\* raw content and an empty block list, no error is raised, and the heading's
\* child sections are still built.
C7_MissingMarkerEmptySection ==
    pc = "done" => EmptyWhenNotFound(tree, Sections)

\* a heading that is not in the source and has a child that is
C7_Witness ==
    /\ pc = "done"
    /\ \E i \in 1..Len(tree) :
           /\ NotInSource(tree[i].heading)
           /\ Len(Sections[i].children) > 0
           /\ Sections[i].children[1].content.raw # <<>>

\* what the first occurrence of the marker decides of a Section: the offset
\* of its content, its line when the occurrence starts a line, and raw content
\* that is trimmed text of the source from that offset on
AtFirstOccurrence(sec) ==
    LET s == doc.content
        o == FirstOccurrence(s, marker([level |-> sec.level, text |-> sec.title]))
        e == NextLineFeed(s, o)
        rest == SliceFrom(s, sec.position.offset)
    IN o # 0 =>
        /\ sec.position.offset = IF e <= Len(s) THEN e ELSE o - 1
        /\ (o = 1 \/ s[o - 1] = NL) =>
               sec.position.line = Cardinality({i \in 1..(o - 1) : s[i] = NL}) + 2
        /\ \E end \in 0..Len(rest) : sec.content.raw = trim(SliceTo(rest, end))

\* C8: section lookup always uses the first occurrence of the marker string in
\* the full original source: any two headings with the same level and the same
\* text, wherever they sit in the tree, produce Sections with identical raw
\* content, identical byte offset and identical line, namely those of the
\* first occurrence.
C8_FirstOccurrenceEverywhere ==
    pc = "done" =>
        LET all == AllSections(Sections) IN
        /\ \A i \in 1..Len(all) : AtFirstOccurrence(all[i])
        /\ \A i, j \in 1..Len(all) :
               (all[i].level = all[j].level /\ all[i].title = all[j].title)
               => /\ all[i].content.raw = all[j].content.raw
                  /\ all[i].position = all[j].position

\* a root heading and a nested heading of the same level and text, whose
\* marker occurs twice in the source, the first time with text under it
C8_Witness ==
    /\ pc = "done"
    /\ \E i, j \in 1..Len(Sections) :
           /\ Len(Sections[j].children) > 0
           /\ Sections[j].children[1].level = Sections[i].level
           /\ Sections[j].children[1].title = Sections[i].title
           /\ Sections[i].content.raw # <<>>
           /\ LET m == marker([level |-> Sections[i].level,
                               text |-> Sections[i].title])
              IN \E p \in 1..Len(doc.content) :
                     /\ p > FirstOccurrence(doc.content, m)
                     /\ starts_with(SliceFrom(doc.content, p - 1), m)

\* the Section forest has the shape of the node forest, each Section with the
\* level and title of its node
RECURSIVE Mirrors(_, _)
Mirrors(nodes, secs) ==
    /\ Len(secs) = Len(nodes)
    /\ \A i \in 1..Len(nodes) :
           /\ secs[i].level = nodes[i].heading.level
           /\ secs[i].title = nodes[i].heading.text
           /\ Mirrors(nodes[i].children, secs[i].children)

\* C9: the exported Section tree mirrors the heading forest: the same shape
\* and child order, each Section carrying the level and title of its
\* HeadingNode, so that the total number of Sections equals
\* metadata.heading_count (the number of headings in the Document).
C9_SectionsMirrorForest ==
    pc = "done" =>
        /\ Mirrors(tree, Sections)
        /\ Len(AllSections(Sections)) = output.document.metadata.heading_count
        /\ output.document.metadata.heading_count = Len(doc.headings)

\* a finished output of three headings: a root with a child, and another root
C9_Witness ==
    /\ pc = "done"
    /\ Len(doc.headings) = 3
    /\ Len(Sections) = 2
    /\ \E i \in 1..2 : Len(Sections[i].children) = 1

\* the number of nodes on the longest root-to-leaf path of the forest
LongestPath(forest) ==
    LET par == ParentOf(forest, 0, 0)
    IN IF par = <<>> THEN 0
       ELSE Max({1 + Cardinality(Ancestors(par, i)) : i \in 1..Len(par)})

\* C10: metadata.max_depth equals the number of nodes on the longest
\* root-to-leaf path of the heading forest and is 0 exactly when the document
\* has no headings; it never exceeds heading_count.
C10_MaxDepthIsLongestPath ==
    pc \in {"metadata", "done"} =>
        LET m == IF pc = "done" THEN output.document.metadata ELSE output.metadata
        IN /\ m.max_depth = LongestPath(tree)
           /\ (m.max_depth = 0) <=> (Len(doc.headings) = 0)
           /\ m.max_depth <= m.heading_count

\* a document of three headings whose forest is two nodes deep
C10_Witness ==
    /\ pc = "done"
    /\ output.document.metadata.heading_count = 3
    /\ output.document.metadata.max_depth = 2

----------------------------------------------------------------------------
(* Properties of extract_links, checked under SpecLinks.                   *)

IsWikiLink(l) == l.target.variant = "WikiLink"

\* the result of extract_links, once it has returned
Extracted == pc = "done" /\ tokens # <<>>

\* the Link tags the tokenizer reports, in document order
LinkTags == SelectSeq(tokens, LAMBDA ev : ev.event = "StartLink")

\* the entries of the result by kind, in result order
MarkdownEntries == SelectSeq(links, LAMBDA l : ~IsWikiLink(l))
WikiEntries == SelectSeq(links, LAMBDA l : IsWikiLink(l))

\* strictly increasing byte offsets
OffsetOrdered(ls) == \A i, j \in 1..Len(ls) : i < j => ls[i].offset < ls[j].offset

\* C11: extract_links returns the links of the tokenizer pass, in document
\* order, followed by the wikilinks of the character scan, in source order:
\* no WikiLink entry precedes a non-WikiLink entry, whatever the offsets.
C11_TokenizerLinksThenWikilinks ==
    Extracted =>
        /\ \A i, j \in 1..Len(links) :
              (i < j /\ IsWikiLink(links[i])) => IsWikiLink(links[j])
        /\ Len(MarkdownEntries) = Len(LinkTags)
        /\ \A k \in 1..Len(LinkTags) :
              MarkdownEntries[k].offset = LinkTags[k].range_start
        /\ OffsetOrdered(MarkdownEntries)
        /\ OffsetOrdered(WikiEntries)

\* a wikilink comes after an inline link that lies behind it in the source
C11_Witness ==
    /\ Extracted
    /\ \E i, j \in 1..Len(links) :
          /\ i < j
          /\ ~IsWikiLink(links[i])
          /\ IsWikiLink(links[j])
          /\ links[j].offset < links[i].offset

\* "[[" and "]]" at a 0-based byte offset of the source
OpensAt(c, p) == p + 2 <= Len(c) /\ c[p + 1] = "[" /\ c[p + 2] = "["
ClosesAt(c, q) == q + 2 <= Len(c) /\ c[q + 1] = "]" /\ c[q + 2] = "]"

\* the offsets of the "]]" that can close a run opened at p
ClosesOf(c, p) == {q \in (p + 2)..Len(c) : ClosesAt(c, q)}

\* the "[[" of the source that no "]]" follows
Unterminated(c) == {p \in 0..Len(c) : OpensAt(c, p) /\ ClosesOf(c, p) = {}}

\* C12: a "[[" that no "]]" follows before the end of the input produces no
\* Link; when no "[[" of the source is closed, extract_links returns the
\* links of the tokenizer pass and nothing else.
C12_UnterminatedRunDiscarded ==
    Extracted =>
        /\ \A p \in Unterminated(doc.content) :
              \A k \in 1..Len(links) : links[k].offset # p
        /\ (\A p \in 0..Len(doc.content) :
               OpensAt(doc.content, p) => p \in Unterminated(doc.content))
           => links = markdown_links(tokens)

\* an unterminated run swallows an inline link, which the tokenizer pass
\* still returns
C12_Witness ==
    /\ Extracted
    /\ Unterminated(doc.content) # {}
    /\ \E k \in 1..Len(links) :
          \E p \in Unterminated(doc.content) : p < links[k].offset
    /\ links = markdown_links(tokens)

\* the wikilink runs of the source from offset from on: the first "[[", the
\* first "]]" behind it, and so on behind that "]]"
RECURSIVE RunsFrom(_, _)
RunsFrom(c, from) ==
    LET opens == {p \in from..Len(c) : OpensAt(c, p)}
    IN IF opens = {} THEN <<>>
       ELSE LET p == Min(opens)
            IN IF ClosesOf(c, p) = {} THEN <<>>
               ELSE LET q == Min(ClosesOf(c, p))
                    IN <<[start |-> p, end |-> q]>> \o RunsFrom(c, q + 2)

\* the text between the brackets of a run
RunText(c, r) == SubSeq(c, r.start + 3, r.end)

\* the well-formed, non-empty runs of the source
WikiRuns(c) == SelectSeq(RunsFrom(c, 0), LAMBDA r : RunText(c, r) # <<>>)

\* the positions of '|' in a text
Bars(t) == {k \in 1..Len(t) : t[k] = "|"}

\* the Link a run stands for
RunLink(c, r) ==
    LET t == RunText(c, r)
    IN IF Bars(t) # {}
       THEN LET b == Min(Bars(t))
                target == trim(SubSeq(t, 1, b - 1))
                alias == trim(SubSeq(t, b + 1, Len(t)))
            IN [text |-> alias,
                target |-> [variant |-> "WikiLink", target |-> target,
                            alias |-> [some |-> alias]],
                offset |-> r.start]
       ELSE [text |-> trim(t),
             target |-> [variant |-> "WikiLink", target |-> trim(t), alias |-> None],
             offset |-> r.start]

\* C14: every well-formed, non-empty wikilink run gives one Link: with a '|'
\* the trimmed text before the first '|' is the target, the trimmed text
\* after it the alias and the display text; without, the trimmed run is the
\* target and the display text and the alias is None; the offset is the
\* byte index of the first '[' of the run.
C14_WikilinkRunParts ==
    Extracted =>
        /\ Len(WikiEntries) = Len(WikiRuns(doc.content))
        /\ \A k \in 1..Len(WikiEntries) :
              WikiEntries[k] = RunLink(doc.content, WikiRuns(doc.content)[k])

\* a run with an alias and one without, both with blanks around the target
C14_Witness ==
    /\ Extracted
    /\ \E k \in 1..Len(WikiEntries) :
          /\ WikiEntries[k].target.alias # None
          /\ WikiEntries[k].text = <<"a", " ", "|", "b">>
          /\ WikiEntries[k].target.target = <<"w">>
          /\ WikiEntries[k].offset > 0
    /\ \E k \in 1..Len(WikiEntries) : WikiEntries[k].target.alias = None

----------------------------------------------------------------------------
(* Properties of the pure functions, checked under SpecUtil.               *)

Returned(f) == pc = "done" /\ result # None /\ result.of = f

\* the positions of '#' in a URL
Hashes(u) == {k \in 1..Len(u) : u[k] = HASH}

\* u begins with the characters of p
HasPrefix(u, p) == Len(u) >= Len(p) /\ \A k \in 1..Len(p) : u[k] = p[k]

\* the target the classification rule gives a URL
TargetOf(u) ==
    IF HasPrefix(u, <<HASH>>)
    THEN [variant |-> "Anchor", anchor |-> SubSeq(u, 2, Len(u))]
    ELSE IF HasPrefix(u, HTTP) \/ HasPrefix(u, HTTPS)
    THEN [variant |-> "External", url |-> u]
    ELSE IF Hashes(u) # {}
    THEN [variant |-> "RelativeFile", path |-> SubSeq(u, 1, Min(Hashes(u)) - 1),
          anchor |-> [some |-> SubSeq(u, Min(Hashes(u)) + 1, Len(u))]]
    ELSE [variant |-> "RelativeFile", path |-> u, anchor |-> None]

\* C13: parse_link_target classifies every URL into exactly one target: a
\* leading '#' gives Anchor(the rest); otherwise a leading "http://" or
\* "https://" gives External(the whole URL, fragment included); otherwise
\* RelativeFile with the text before the first '#' as path and the text
\* after it as anchor, None when there is no '#'.
C13_TargetClassification ==
    Returned("parse_link_target") => result.value = TargetOf(arg)

\* a relative URL with two '#', and so an anchor that holds a '#'
C13_Witness ==
    /\ Returned("parse_link_target")
    /\ result.value.variant = "RelativeFile"
    /\ result.value.path = <<"x">>
    /\ result.value.anchor = [some |-> <<HASH>>]

\* a slug: lowercase alphanumerics separated by single '-', with no '-' at
\* either end
IsSlugChar(c) == c = "-" \/ (is_alphanumeric(c) /\ to_lowercase(c) = c)
IsSlug(s) ==
    /\ \A k \in 1..Len(s) : IsSlugChar(s[k])
    /\ s # <<>> => (s[1] # "-" /\ s[Len(s)] # "-")
    /\ \A k \in 1..(Len(s) - 1) : ~(s[k] = "-" /\ s[k + 1] = "-")

\* C15: slugify is idempotent, and its output consists of lowercase
\* alphanumeric characters separated by single '-' characters, with no
\* leading, trailing or consecutive '-'.
C15_SlugifyIdempotent ==
    Returned("slugify") => (result.again = result.value /\ IsSlug(result.value))

\* a text with an uppercase letter, punctuation and a run of separators,
\* slugified to two words
C15_Witness ==
    /\ Returned("slugify")
    /\ arg = <<"B", "-", SP, "a">>
    /\ result.value = <<"b", "-", "a">>

\* the length of the run of '#' that starts a text
HashRun(u) == Max({n \in 0..Len(u) : \A k \in 1..n : u[k] = HASH})

\* C16: utils::get_heading_level returns Some(n) exactly when the line,
\* after its leading whitespace, starts with a run of n '#', 1 <= n <= 6,
\* that a whitespace character follows immediately; else it returns None.
C16_HeadingLevelOneToSix ==
    Returned("get_heading_level") =>
        LET u == Unindented(arg)
            n == HashRun(u)
        IN IF 1 <= n /\ n <= 6 /\ n < Len(u) /\ is_whitespace(u[n + 1])
           THEN result.value = [some |-> n]
           ELSE result.value = None

\* a run of seven '#' followed by a blank is no heading
C16_Witness ==
    /\ Returned("get_heading_level")
    /\ arg = <<HASH, HASH, HASH, HASH, HASH, HASH, HASH, SP>>
    /\ result.value = None

----------------------------------------------------------------------------
(* Properties of the content parser's list handling, checked under         *)
(* SpecContent.                                                            *)

\* the events processed so far, by tag
EventsOf(tag) == {k \in 1..Len(events) : events[k].tag = tag}

\* the item depth of the event stream behind its k-th event
ItemDepthAt(k) ==
    Cardinality({j \in EventsOf("StartItem") : j <= k})
    - Cardinality({j \in EventsOf("EndItem") : j <= k})

\* the start of the depth-1 item that is open, or was the last to be open
ItemStart == Max({k \in EventsOf("StartItem") : ItemDepthAt(k) = 1})

\* the event just processed
Processed(tag) == pc = "events" /\ LastEvent.tag = tag

\* the event just processed ended a depth-1 item
ItemEnded == Processed("EndItem") /\ ItemDepthAt(Len(events)) = 0

\* the step processes an event with this tag
Processes(tag) == events' # events /\ events'[Len(events')].tag = tag

ItemsOfOpenList ==
    LET start == Max({k \in EventsOf("StartList") : k <= Len(events) /\
                         Cardinality({j \in EventsOf("StartList") : j <= k})
                         - Cardinality({j \in EventsOf("EndList") : j <= k}) = 1})
    IN {k \in EventsOf("EndItem") : k > start /\ ItemDepthAt(k) = 0}

\* C18: each outermost list produces exactly one List block, appended when
\* the list depth returns to 0, with one ListItem per depth-1 item in order;
\* a code block or paragraph that ends inside a list item is stored, in
\* order, in the item's sub-blocks and is never appended to the top-level
\* block sequence.
C18_ListBlockAndSubBlocks ==
    [][/\ (Processes("EndList") /\ state.list_depth = 1) =>
             /\ Len(blocks') = Len(blocks) + 1
             /\ blocks'[Len(blocks')].block = "List"
             /\ blocks'[Len(blocks')].items = state.list_items
             /\ Len(state.list_items) = Cardinality(ItemsOfOpenList)
       /\ (Processes("EndItem") /\ state.item_depth = 1) =>
             Len(state'.list_items) = Len(state.list_items) + 1
       /\ (events' # events /\ state.list_depth >= 1
           /\ ~(Processes("EndList") /\ state.list_depth = 1)) =>
             blocks' = blocks
       /\ (Processes("EndParagraph") /\ state.item_depth >= 1) =>
             /\ Len(state'.item_blocks) = Len(state.item_blocks) + 1
             /\ state'.item_blocks[Len(state'.item_blocks)].block = "Paragraph"
             /\ SubSeq(state'.item_blocks, 1, Len(state.item_blocks)) = state.item_blocks
       /\ (Processes("EndCodeBlock") /\ state.item_depth >= 1) =>
             /\ Len(state'.item_blocks) = Len(state.item_blocks) + 1
             /\ state'.item_blocks[Len(state'.item_blocks)].block = "Code"
             /\ SubSeq(state'.item_blocks, 1, Len(state.item_blocks)) = state.item_blocks
       /\ (pc = "events" /\ pc' = "done" /\ EventsOf("StartCodeBlock") # {}
           /\ \A k \in EventsOf("StartCodeBlock") : ItemDepthAt(k) >= 1) =>
             \A k \in 1..Len(blocks') : blocks'[k].block # "Code"
    ]_vars

\* the tags of the events of the open depth-1 item
ItemSpanTags == {events[k].tag : k \in ItemStart..Len(events)}

\* the open depth-1 item holds text, task markers and nested lists only, and
\* no code block before it has left the parser in its code state
PlainItemOpen ==
    /\ pc = "events"
    /\ EventsOf("StartItem") # {}
    /\ ItemDepthAt(Len(events)) >= 1
    /\ ItemSpanTags \subseteq {"StartItem", "EndItem", "StartList", "EndList",
                               "TaskListMarker", "Text"}
    /\ ~state.in_code

\* the content of the open depth-1 item as the events from the k-th on make
\* it: the text of the item itself as it comes, the text of a nested item at
\* depth d on a new line behind 2 * (d - 1) blanks and the checkbox of the
\* nested item's task marker
RECURSIVE NestedContent(_, _, _, _, _)
NestedContent(k, buf, depth, fresh, pending) ==
    IF k > Len(events) THEN buf
    ELSE LET ev == events[k]
         IN CASE ev.tag = "StartItem" ->
                     NestedContent(k + 1, buf, depth + 1, TRUE, None)
              [] ev.tag = "EndItem" ->
                     NestedContent(k + 1, buf, depth - 1, FALSE, None)
              [] ev.tag = "TaskListMarker" ->
                     NestedContent(k + 1, buf, depth, fresh, [some |-> ev.flag])
              [] ev.tag = "Text" /\ depth >= 2 /\ fresh ->
                     NestedContent(k + 1,
                         buf \o (IF buf # <<>> /\ buf[Len(buf)] # NL THEN <<NL>> ELSE <<>>)
                             \o [i \in 1..(2 * (depth - 1)) |-> SP]
                             \o (IF pending = None THEN <<>>
                                 ELSE IF pending.some THEN <<"[", "x", "]", SP>>
                                 ELSE <<"[", SP, "]", SP>>)
                             \o ev.text,
                         depth, FALSE, None)
              [] ev.tag = "Text" /\ ~(depth >= 2 /\ fresh) ->
                     NestedContent(k + 1, buf \o ev.text, depth, fresh, pending)
              [] OTHER -> NestedContent(k + 1, buf, depth, fresh, pending)

\* no List block among the sub-blocks of an item
NoListIn(bs) == \A k \in 1..Len(bs) : bs[k].block # "List"

\* C19: a list nested inside a list item never produces a List block, in the
\* top-level sequence or in any ListItem.blocks; the text of each nested
\* item at item depth d is appended to the enclosing depth-1 item's content
\* on a new line, behind 2 * (d - 1) blanks and "[x] " or "[ ] " when the
\* nested item has a pending task marker.
C19_NestedItemsAsIndentedText ==
    /\ pc = "events" =>
          /\ Cardinality({k \in 1..Len(blocks) : blocks[k].block = "List"})
                <= Cardinality({k \in EventsOf("EndList") :
                       Cardinality({j \in EventsOf("StartList") : j <= k})
                       = Cardinality({j \in EventsOf("EndList") : j <= k})})
          /\ NoListIn(state.item_blocks)
          /\ \A i \in 1..Len(state.list_items) : NoListIn(state.list_items[i].blocks)
    /\ PlainItemOpen =>
          state.paragraph_buffer = NestedContent(ItemStart, <<>>, 0, FALSE, None)

\* the task marker that occurred directly in the depth-1 item
DirectMarkers ==
    {k \in EventsOf("TaskListMarker") : k > ItemStart /\ ItemDepthAt(k) = 1}
DirectChecked ==
    IF DirectMarkers = {} THEN None ELSE [some |-> events[Max(DirectMarkers)].flag]

\* a depth-1 ListItem has checked = Some(b) exactly when a task marker with
\* value b occurred directly in that item
CheckedIsDirectMarker ==
    ItemEnded => state.list_items[Len(state.list_items)].checked = DirectChecked

\* the Text event just processed was appended to the list item's content
ItemTextAppended ==
    /\ Processed("Text")
    /\ ItemDepthAt(Len(events)) >= 1
    /\ ~state.in_code

\* C20, as the claim states it: checked = Some(b) exactly when a task marker
\* with value b occurred directly in the item, and a pending marker is
\* consumed and cleared the next time list-item text is appended.
C20_MarkerClearedByItemText ==
    /\ CheckedIsDirectMarker
    /\ ItemTextAppended => state.task_list_marker = None

\* C20, amended: checked = Some(b) exactly when a task marker with value b
\* occurred directly in the depth-1 item, and None otherwise; the pending
\* marker of a nested item is consumed and cleared the next time text of a
\* nested item is appended, while the marker of a depth-1 item stays pending
\* through the item's own text until the item ends; so a marker of a nested
\* item or of a previous item never sets another item's checked field.
C20_CheckedIsOwnMarker ==
    /\ CheckedIsDirectMarker
    /\ (ItemTextAppended /\ ItemDepthAt(Len(events)) >= 2) =>
          state.task_list_marker = None
    /\ (ItemTextAppended /\ ItemDepthAt(Len(events)) = 1) =>
          state.task_list_marker = DirectChecked

\* a checked depth-1 item with an unchecked nested item has just ended: its
\* checked field is Some(true) and the nested checkbox is in its content
C20_Witness ==
    /\ ItemEnded
    /\ \E k \in DirectMarkers : events[k].flag
    /\ \E k \in EventsOf("TaskListMarker") :
          k > ItemStart /\ ItemDepthAt(k) = 2 /\ ~events[k].flag
    /\ LET item == state.list_items[Len(state.list_items)]
       IN /\ item.checked = [some |-> TRUE]
          /\ \E t \in InlineTexts, u \in InlineTexts :
                item.content = t \o <<NL, SP, SP, "[", SP, "]", SP>> \o u

----------------------------------------------------------------------------
(* Properties of the inline arms of process_event, checked under           *)
(* SpecInline.                                                             *)

\* the index of the last event with this tag, 0 when there is none
LastIndexOf(tag) ==
    IF EventsOf(tag) = {} THEN 0
    ELSE CHOOSE k \in EventsOf(tag) : \A j \in EventsOf(tag) : j <= k

\* a link is open behind the events processed so far
LinkOpen == LastIndexOf("StartLink") > LastIndexOf("EndLink")

\* the starts of the images in the open link
ImagesInLink ==
    {k \in EventsOf("StartImage") : LinkOpen /\ k > LastIndexOf("StartLink")}

\* the text events from the k-th event up to the next end of an image
RECURSIVE TextUpToEndImage(_)
TextUpToEndImage(k) ==
    IF k > Len(events) \/ events[k].tag = "EndImage" THEN <<>>
    ELSE (IF events[k].tag = "Text" THEN events[k].text ELSE <<>>)
             \o TextUpToEndImage(k + 1)

\* the alt text of the image that starts at the k-th event
AltOf(k) == TextUpToEndImage(k + 1)

\* the destination of the open link
OuterDest == events[LastIndexOf("StartLink")].text

\* C21: for a link that contains one or more images, exactly one inline
\* Link is emitted at the link's end, its text an image's alt text and its
\* url the outer link's destination, never an image's source; the end of a
\* contained image emits no inline Image and no Image block.
C21_BadgeLink ==
    [][/\ (Processes("EndLink") /\ ImagesInLink # {})
          => /\ \E k \in ImagesInLink :
                    state'.inline_buffer =
                        Append(state.inline_buffer,
                               InlineLink(AltOf(k), OuterDest))
             /\ blocks' = blocks
       /\ (Processes("EndImage") /\ ImagesInLink # {})
          => /\ state'.inline_buffer = state.inline_buffer
             /\ blocks' = blocks]_vars

\* a link is open at the k-th event
LinkOpenAt(k) ==
    Cardinality({j \in EventsOf("StartLink") : j < k})
        > Cardinality({j \in EventsOf("EndLink") : j < k})

\* an image is open at the k-th event
ImageOpenAt(k) ==
    Cardinality({j \in EventsOf("StartImage") : j < k})
        > Cardinality({j \in EventsOf("EndImage") : j < k})

\* the starts of the images outside every link
FreeImages == {k \in EventsOf("StartImage") : ~LinkOpenAt(k)}

\* the inline Image the claim gives the image that starts at the k-th event
ImageElement(k) ==
    InlineImage(AltOf(k), events[k].text,
                IF events[k].title = <<>> THEN None ELSE Some(events[k].title))

\* the text events outside every image and every link
FreeTexts == {k \in EventsOf("Text") : ~LinkOpenAt(k) /\ ~ImageOpenAt(k)}

\* the inline elements of a sequence, as a set
Elements(inline) == {inline[i] : i \in DOMAIN inline}

\* C22: when a paragraph that holds an image outside any link ends, one
\* Paragraph block is emitted for it; its inline elements hold an Image
\* (alt, src, title) for the image and the text around the image, and no
\* Image block is emitted. This also holds when the image is the only or
\* the last content of the paragraph.
C22_InlineImageInParagraph ==
    [][(Processes("EndParagraph") /\ FreeImages # {})
       => /\ Len(blocks') = Len(blocks) + 1
          /\ LET p == blocks'[Len(blocks')]
             IN /\ p.block = "Paragraph"
                /\ \A k \in FreeImages : ImageElement(k) \in Elements(p.inline)
                /\ \A k \in FreeTexts :
                       \E e \in Elements(p.inline) :
                           e.inline # "Image" /\ e.inline # "Link"
                           /\ e.value = events[k].text
          /\ \A i \in DOMAIN blocks' : blocks'[i].block # "Image"]_vars

\* a span that starts with one tag and ends with the other is open behind
\* the events processed so far
SpanOpen(start, end) ==
    Cardinality(EventsOf(start)) > Cardinality(EventsOf(end))

\* the variant the precedence gives a text run: inline code, then strong,
\* emphasis, strikethrough, plain text
VariantByPrecedence(tag) ==
    IF tag = "Code" THEN "Code"
    ELSE IF SpanOpen("StartStrong", "EndStrong") THEN "Strong"
    ELSE IF SpanOpen("StartEmphasis", "EndEmphasis") THEN "Emphasis"
    ELSE IF SpanOpen("StartStrikethrough", "EndStrikethrough")
    THEN "Strikethrough"
    ELSE "Text"

\* the step processes a text run, plain or inline code, outside every link
\* and every image
ProcessesTextRun ==
    /\ Processes("Text") \/ Processes("Code")
    /\ ~SpanOpen("StartLink", "EndLink")
    /\ ~SpanOpen("StartImage", "EndImage")

\* C23: every text run in a paragraph, a list item, a table cell or a
\* heading is emitted as exactly one inline element, of the variant the
\* precedence inline code > strong > emphasis > strikethrough > plain gives
\* it; the heading's runs go to the heading's elements.
C23_OneElementByPrecedence ==
    [][ProcessesTextRun
       => LET ev == events'[Len(events')]
              element == InlineElement(VariantByPrecedence(ev.tag), ev.text)
          IN IF SpanOpen("StartHeading", "EndHeading")
             THEN state'.heading_inline = Append(state.heading_inline, element)
             ELSE state'.inline_buffer = Append(state.inline_buffer, element)]_vars

----------------------------------------------------------------------------
(* Properties of the block arms of process_event, checked under            *)
(* SpecBlocks.                                                             *)

\* the five block states
BlockFlags ==
    {"in_paragraph", "in_heading", "in_code", "in_blockquote", "in_table"}

\* the block states that are active in a parser state
ActiveIn(s) == {f \in BlockFlags : s[f]}

\* the buffer of a block state holds something
Accumulated(s, f) ==
    CASE f = "in_paragraph" -> s.paragraph_buffer # <<>>
      [] f = "in_heading" -> s.heading_buffer # <<>>
      [] f = "in_code" -> s.code_buffer # <<>>
      [] f = "in_blockquote" -> s.blockquote_buffer # <<>>
      [] f = "in_table" ->
           s.table_headers # <<>> \/ s.table_rows # <<>> \/ s.current_row # <<>>

\* C24: in every state the parser reaches at most one of in_paragraph,
\* in_heading, in_code, in_blockquote and in_table is true, and the step
\* that enters one of them leaves no accumulated buffer of another kind.
C24_BlockStatesExclusive ==
    [][/\ Cardinality(ActiveIn(state')) <= 1
       /\ \A f \in ActiveIn(state') \ ActiveIn(state) :
              \A g \in BlockFlags \ {f} : ~Accumulated(state', g)]_vars

\* the text of the text events from the k-th event on
RECURSIVE TextFrom(_)
TextFrom(k) ==
    IF k > Len(events) THEN <<>>
    ELSE (IF events[k].tag = "Text" THEN events[k].text ELSE <<>>)
             \o TextFrom(k + 1)

\* the text inside the open block quote
QuoteText == TextFrom(LastIndexOf("StartBlockQuote") + 1)

\* C25: a block quote gives the parent sequence exactly one block. Between
\* its start and its end every text goes to the quote buffer and nothing
\* is appended to the parent sequence; at its end one Blockquote is
\* appended, its content the text of the quote and its blocks
\* parse_content(content, current line), and the parser leaves the
\* blockquote state.
C25_QuoteIsOneBlock ==
    [][/\ (SpanOpen("StartBlockQuote", "EndBlockQuote")
           /\ events' # events /\ ~Processes("EndBlockQuote"))
          => /\ blocks' = blocks
             /\ Processes("Text")
                => state'.blockquote_buffer
                       = state.blockquote_buffer \o events'[Len(events')].text
       /\ Processes("EndBlockQuote")
          => /\ blocks' = Append(blocks,
                                 BlockquoteBlock(QuoteText,
                                     parse_content(QuoteText,
                                                   state.current_line)))
             /\ ~state'.in_blockquote]_vars

\* the first index from k on of an event with this tag
RECURSIVE NextIndexOf(_, _)
NextIndexOf(k, tag) ==
    IF k > Len(events) \/ events[k].tag = tag THEN k
    ELSE NextIndexOf(k + 1, tag)

\* the text of a cell from its j-th event on: its text runs, plain and
\* inline code, outside every image and every link
RECURSIVE CellTextFrom(_)
CellTextFrom(j) ==
    IF j > Len(events) \/ events[j].tag = "EndTableCell" THEN <<>>
    ELSE (IF events[j].tag \in {"Text", "Code"}
             /\ ~ImageOpenAt(j) /\ ~LinkOpenAt(j)
          THEN events[j].text ELSE <<>>)
             \o CellTextFrom(j + 1)

\* the texts of the cells that start at the events k..hi, in order
RECURSIVE CellsIn(_, _)
CellsIn(k, hi) ==
    IF k > hi THEN <<>>
    ELSE (IF events[k].tag = "StartTableCell"
          THEN <<CellTextFrom(k + 1)>> ELSE <<>>)
             \o CellsIn(k + 1, hi)

\* the rows that start at the events k..hi, in order
RECURSIVE RowsIn(_, _)
RowsIn(k, hi) ==
    IF k > hi THEN <<>>
    ELSE (IF events[k].tag = "StartTableRow"
          THEN <<CellsIn(k, NextIndexOf(k, "EndTableRow"))>> ELSE <<>>)
             \o RowsIn(k + 1, hi)

\* the Table block the claim gives the table that is open
ExpectedTable ==
    LET t == LastIndexOf("StartTable")
        a == events[t].alignments
    IN TableBlock(CellsIn(t, NextIndexOf(t, "EndTableHead")),
                  [i \in DOMAIN a |-> alignment_of(a[i])],
                  RowsIn(t, Len(events)))

\* C29: at the end of a table exactly one Table block is emitted; its
\* alignments are those of the start of the table, its headers the texts
\* of the header cells in order, its rows one entry for each row in order
\* with the texts of the row's cells in order. No text from before a cell
\* is in the cell.
C29_TableBlock ==
    [][Processes("EndTable") => blocks' = Append(blocks, ExpectedTable)]_vars

----------------------------------------------------------------------------
(* Properties of parse_content and extract_details_blocks, checked under   *)
(* SpecParse.                                                              *)

\* the 0-based positions at which pat occurs in s
Occurrences(s, pat) ==
    {p \in 0..(Len(s) - Len(pat)) : SubSeq(s, p + 1, p + Len(pat)) = pat}

\* a complete details region opens at p: "<details" at p, a later '>' and a
\* "</details>" behind that '>'
CompleteAt(s, p) ==
    /\ p \in Occurrences(s, DetailsOpen)
    /\ \E g \in Occurrences(s, <<GT>>) :
           /\ g > p
           /\ \E c \in Occurrences(s, DetailsClose) : c > g

NoCompleteRegion(s) == \A p \in 0..Len(s) : ~CompleteAt(s, p)

\* extract_details_blocks has returned
Extracted27 == pc \in {"tokens", "done"} /\ result # None

\* C27: when the fragment has no complete details region,
\* extract_details_blocks returns the fragment unchanged and an empty
\* list, so the tokenizer gets the tag text as ordinary content, and no
\* Details block is among the blocks of parse_content.
C27_NoRegionNoDetails ==
    (Extracted27 /\ NoCompleteRegion(arg))
    => /\ result = [result |-> arg, details_blocks |-> <<>>]
       /\ \A i \in DOMAIN blocks : blocks[i].block # "Details"

\* parse_content has returned on a fragment with an opening tag that is
\* never closed and with the text of a placeholder
C27_Witness ==
    /\ pc = "done"
    /\ NoCompleteRegion(arg)
    /\ Occurrences(arg, Append(DetailsOpen, GT)) # {}
    /\ \E i \in DOMAIN blocks :
           /\ blocks[i].block = "Paragraph"
           /\ starts_with(blocks[i].content, PlaceholderPrefix)

\* the first occurrence of pat in s behind position p, -1 when there is none
FirstBehind(s, pat, p) ==
    IF \E q \in Occurrences(s, pat) : q > p
    THEN Min({q \in Occurrences(s, pat) : q > p})
    ELSE -1

\* the Details block of the region whose body is this text: the summary is
\* the trimmed body of its "<summary" element, empty when the element is
\* absent; the content is the trimmed text behind "</summary>", the whole
\* body when there is none
RegionDetails(body) ==
    LET a == FirstBehind(body, SummaryOpen, -1)
        b == IF a = -1 THEN -1 ELSE FirstBehind(body, <<GT>>, a)
        e == IF b = -1 THEN -1 ELSE FirstBehind(body, SummaryClose, b)
        z == FirstBehind(body, SummaryClose, -1)
        content == trim(IF z = -1 THEN body
                        ELSE SubSeq(body, z + Len(SummaryClose) + 1, Len(body)))
    IN DetailsBlock(IF e = -1 THEN <<>> ELSE trim(SubSeq(body, b + 2, e)),
                    content,
                    parse_content(content, 0))

\* the Details blocks of the complete regions of s from position p on,
\* leftmost first and without overlap
RECURSIVE RegionsFrom(_, _)
RegionsFrom(s, p) ==
    IF p >= Len(s) THEN <<>>
    ELSE IF CompleteAt(s, p)
    THEN LET g == FirstBehind(s, <<GT>>, p)
             c == FirstBehind(s, DetailsClose, g)
         IN <<RegionDetails(SubSeq(s, g + 2, c))>>
                \o RegionsFrom(s, c + Len(DetailsClose))
    ELSE RegionsFrom(s, p + 1)

\* the Details blocks among the blocks, in order
RECURSIVE DetailsAmong(_)
DetailsAmong(bl) ==
    IF bl = <<>> THEN <<>>
    ELSE (IF Head(bl).block = "Details" THEN <<Head(bl)>> ELSE <<>>)
             \o DetailsAmong(Tail(bl))

\* C26: the blocks parse_content returns hold one Details block for every
\* complete details region of the fragment, leftmost first and without
\* overlap, in the order of the source; its summary is the trimmed body of
\* the region's "<summary" element (empty when absent), its content the
\* trimmed text behind "</summary>" (the whole body when absent) and its
\* blocks are parse_content(content, 0).
C26_DetailsForEveryRegion ==
    pc = "done" => DetailsAmong(blocks) = RegionsFrom(arg, 0)

----------------------------------------------------------------------------
(* Properties of the recursion of parse_content, checked under             *)
(* SpecContentCall.                                                        *)

\* the bodies parse_content is invoked on again: the content of every
\* Details block of the fragment that is not empty, and the content of
\* every Blockquote among the blocks
DetailsBodies ==
    {parsed_details[i].content : i \in DOMAIN parsed_details} \ {<<>>}
QuoteBodies ==
    {blocks[i].content :
         i \in {j \in DOMAIN blocks : blocks[j].block = "Blockquote"}}

----------------------------------------------------------------------------
(* Properties of parse_markdown, checked under SpecMarkdown.               *)

\* the positions of the heading starts among the events, and the end of
\* the heading that starts at position i
HeadingStarts == {i \in DOMAIN events : events[i].tag = "StartHeading"}
HeadingEnd(i) == NextIndexOf(i, "EndHeading")

\* the text of the plain, emphasised and inline-code runs of events
\* i..j, in their order
RECURSIVE RunsText(_, _)
RunsText(i, j) ==
    IF i > j THEN <<>>
    ELSE (IF events[i].tag \in {"Text", "Code"} THEN events[i].text ELSE <<>>)
             \o RunsText(i + 1, j)

\* the Heading of every start/end pair up to position n, in document order
RECURSIVE ExpectedHeadings(_)
ExpectedHeadings(n) ==
    IF n = 0 THEN <<>>
    ELSE IF n \in HeadingStarts
    THEN Append(ExpectedHeadings(n - 1),
                Heading(events[n].level,
                        trim(RunsText(n + 1, HeadingEnd(n) - 1))))
    ELSE ExpectedHeadings(n - 1)

\* C30: parse_markdown returns one Heading per heading start/end pair, in
\* document order, with the level of the start event and the trimmed text
\* of all plain, emphasised and inline-code runs inside the heading, and
\* nothing from outside headings.
C30_HeadingPerPair ==
    pc = "done" => doc.headings = ExpectedHeadings(Len(events))

----------------------------------------------------------------------------
(* More properties of extract_section_content, checked under SpecSection.  *)

\* C31: when find_next_heading returns at a heading line, the position it
\* returns is the byte offset, within the section text, of the first
\* character of that line, with "\n" and with "\r\n" line endings.
C31_PositionIsBoundaryOffset ==
    (pc = "done" /\ Found /\ scan.boundary # 0)
        => scan.pos = BoundaryStart - ScanFrom


\* the index at which the marker of the heading is found, and the number of
\* the line it is found in
MarkerAt == FirstOccurrence(doc.content, marker(heading))
MarkerLine ==
    Cardinality({i \in 1..(MarkerAt - 1) : doc.content[i] = NL}) + 1

\* the marker is found behind other characters of its line
MarkerInsideLine == MarkerAt > 1 /\ doc.content[MarkerAt - 1] # NL

\* the line of the marker is the last one and has no line ending
MarkerLineUnended == NextLineFeed(doc.content, MarkerAt) > Len(doc.content)

\* C32: when the heading is found, the offset is the byte index just past
\* the newline that ends the heading's line (the end of the source when the
\* line has no newline) and the line is the number of the heading's line
\* plus one, also when the marker is found inside a line or in the last
\* line without a newline.
C32_PositionIsFirstContentLine ==
    (pc = "done" /\ Found)
        => /\ result.offset =
                  Min({NextLineFeed(doc.content, MarkerAt), Len(doc.content)})
           /\ result.line = MarkerLine + 1


\* the starts of the lines outside fenced code that are the heading,
\* written as the plain marker string
OwnLines ==
    {p \in LineStarts(doc.content, 1) :
         /\ LineText(doc.content, p) = marker(heading)
         /\ OutsideFence(doc.content, 1, p)}

\* C33: if exactly one heading of the document has the level and the text
\* searched for and its line is the plain marker string, the occurrence
\* extract_section_content locates is the start of that line, never a part
\* of another line and never text inside fenced code.
C33_OccurrenceIsOwnLine ==
    (pc = "done" /\ Cardinality(OwnLines) = 1) => MarkerAt \in OwnLines

----------------------------------------------------------------------------
(* More properties of the block arms of process_event, checked under       *)
(* SpecBlocks.                                                             *)

\* the text between the start of the last code block and the events
\* processed so far
CodeText == TextFrom(LastIndexOf("StartCodeBlock") + 1)

\* the Code blocks among the blocks the step appends to the block sequence
NewCodeBlocks ==
    {blocks'[i] :
         i \in {j \in (Len(blocks) + 1)..Len(blocks') :
                    blocks'[j].block = "Code"}}

\* C34: the end event of a code block, with content or empty, leaves the
\* code state; a text event outside every code block leaves the code buffer
\* alone; a Code block is emitted only at the end event of a code block,
\* and its content is the text between that block's start and end events,
\* trailing whitespace trimmed.
C34_CodeBlockIsItsOwnText ==
    [][/\ Processes("EndCodeBlock")
          => /\ ~state'.in_code
             /\ state'.code_buffer = <<>>
       /\ (Processes("Text") /\ ~SpanOpen("StartCodeBlock", "EndCodeBlock"))
          => state'.code_buffer = state.code_buffer
       /\ \A b \in NewCodeBlocks :
              /\ Processes("EndCodeBlock")
              /\ b.content = trim_end(CodeText)]_vars

----------------------------------------------------------------------------
(* More properties of the inline arms of process_event, checked under      *)
(* SpecInline.                                                             *)

\* the text of the plain and inline-code runs from the k-th event on
RECURSIVE RunsTextFrom(_)
RunsTextFrom(k) ==
    IF k > Len(events) THEN <<>>
    ELSE (IF events[k].tag \in {"Text", "Code"} THEN events[k].text ELSE <<>>)
             \o RunsTextFrom(k + 1)

\* the text of the open heading
HeadingText == RunsTextFrom(LastIndexOf("StartHeading") + 1)

\* C35: an event between the start and the end of a heading leaves the
\* paragraph buffer and the inline buffer unchanged, and the Heading block
\* emitted at the end holds all of the heading's text.
C35_HeadingEventsStayInHeading ==
    [][/\ (SpanOpen("StartHeading", "EndHeading") /\ events' # events
           /\ ~Processes("EndHeading"))
          => /\ state'.paragraph_buffer = state.paragraph_buffer
             /\ state'.inline_buffer = state.inline_buffer
       /\ (Processes("EndHeading") /\ HeadingText # <<>>)
          => /\ Len(blocks') = Len(blocks) + 1
             /\ blocks'[Len(blocks')].block = "Heading"
             /\ blocks'[Len(blocks')].content = HeadingText]_vars

----------------------------------------------------------------------------
(* More properties of parse_content, checked under SpecParse.              *)

\* the text holds a placeholder token: "[DETAILS_BLOCK_", digits and "]"
HasPlaceholder(text) ==
    \E p \in Occurrences(text, PlaceholderPrefix) :
        \E q \in (p + Len(PlaceholderPrefix) + 1)..(Len(text) - 1) :
            /\ text[q + 1] = "]"
            /\ \A k \in (p + Len(PlaceholderPrefix) + 1)..q :
                   \E d \in DOMAIN Digits : Digits[d] = text[k]

\* the blocks that have a text content
TextBlocks ==
    {i \in DOMAIN blocks : blocks[i].block \in {"Paragraph", "Blockquote"}}

\* C36: the blocks parse_content returns hold exactly one Details block
\* for each details region of the fragment and none besides, and no
\* placeholder token is left in the content of a block unless the fragment
\* itself holds that text.
C36_SubstitutionExact ==
    pc = "done"
        => /\ Len(DetailsAmong(blocks)) = Len(RegionsFrom(arg, 0))
           /\ \A i \in TextBlocks :
                  HasPlaceholder(blocks[i].content) => HasPlaceholder(arg)

----------------------------------------------------------------------------
(* Properties of the line counter of the content parser, checked under     *)
(* SpecLines.                                                              *)

\* the Code blocks of a sequence of blocks
CodesOf(bl) == {bl[i] : i \in {j \in DOMAIN bl : bl[j].block = "Code"}}

\* the Code blocks in the items of a sequence of list items
CodesOfItems(items) == UNION {CodesOf(items[i].blocks) : i \in DOMAIN items}

\* the Code blocks in the items of the List blocks of a sequence of blocks
CodesInLists(bl) ==
    UNION {CodesOfItems(bl[i].items) :
               i \in {j \in DOMAIN bl : bl[j].block = "List"}}

\* every Code block produced so far: at top level, among the sub-blocks of
\* the open item, in the items of the open list and of the finished lists
ProducedCodes ==
    CodesOf(blocks) \cup CodesOf(state.item_blocks)
        \cup CodesOfItems(state.list_items) \cup CodesInLists(blocks)

\* C37: the line counter is never advanced: it is the starting line of the
\* call in every state, every Code block produced, at top level or in a
\* list item, starts and ends at that line, and the nested parse of every
\* block quote is started with it.
C37_LineNeverAdvances ==
    /\ state.current_line = arg
    /\ \A c \in ProducedCodes : c.start_line = arg /\ c.end_line = arg
    /\ \A i \in DOMAIN blocks :
           blocks[i].block = "Blockquote"
               => blocks[i].blocks = parse_content(blocks[i].content, arg)

\* a call with a starting line above 1 has returned a Code block at top
\* level, a Code block in a list item and a Blockquote
C37_Witness ==
    /\ pc = "done"
    /\ arg > 1
    /\ CodesOf(blocks) # {}
    /\ CodesInLists(blocks) # {}
    /\ \E i \in DOMAIN blocks : blocks[i].block = "Blockquote"

----------------------------------------------------------------------------
(* Properties of the FileWatcher, checked under SpecWatcher.               *)

\* the step on which a call of check_for_changes returns
CheckReturns == pc = "check_for_changes" /\ pc' = "idle"

\* some message waiting in the channel is an event relevant to the watched
\* path
RelevantPending ==
    \E i \in DOMAIN events : events[i].ok /\ is_relevant_event(state, events[i])

DebounceElapsed == now - state.last_reload >= debounce_duration

\* C38: check_for_changes drains every pending event; it returns true
\* exactly when a drained event is relevant to the watched path and
\* debounce_duration has elapsed since last_reload; last_reload becomes the
\* current time when it returns true and is kept otherwise.  The answer
\* depends on the events drained by this call alone: what an earlier call
\* drained is gone.
C38_CheckForChanges ==
    [][CheckReturns =>
          /\ events' = <<>>
          /\ result' = CallReturned("check_for_changes",
                                 RelevantPending /\ DebounceElapsed)
          /\ state'.last_reload = (IF result'.returned THEN now
                                   ELSE state.last_reload)
          /\ state'.current_path = state.current_path
          /\ state'.watcher = state.watcher]_vars

\* a call has drained a relevant event behind another event within the
\* debounce time of a reload and has returned false
C38_Witness ==
    /\ pc = "idle"
    /\ result = CallReturned("check_for_changes", FALSE)
    /\ scan # None
    /\ scan.should_reload
    /\ state.last_reload > 0
    /\ events = <<>>


\* the files current_path names: the watched file, or none
NamedByCurrentPath ==
    IF state.current_path = None THEN {} ELSE {state.current_path.some}

\* C39: after any sequence of watch and unwatch calls current_path names
\* exactly the file registered with the underlying watcher, also after a
\* watch that returned an error.
C39_CurrentPathIsRegistered == state.watcher = NamedByCurrentPath

----------------------------------------------------------------------------
(* Properties of rgb_to_256, checked under SpecTheme.                      *)

IsGray(color) == color.r = color.g /\ color.g = color.b

\* C40: rgb_to_256 gives every Color::Rgb a palette index computed without
\* 8-bit overflow: 16, 231 or an index of the grayscale ramp 232..255 for a
\* gray, an index of the colour cube 16..231 for any other colour; a colour
\* that is not RGB is returned unchanged.
C40_PaletteIndex ==
    pc = "done"
        => IF arg.kind = "Rgb"
           THEN /\ result.kind = "Indexed"
                /\ IF IsGray(arg)
                   THEN result.index \in {16, 231} \cup 232..255
                   ELSE result.index \in 16..231
           ELSE result = arg

====
